---- MODULE Spec2Model ----
(***************************************************************************)
(* State-machine model of the desktop-delight core: the rule engine        *)
(* (commands/rules.rs), the direct mutation commands (commands/file_ops.rs)*)
(* and the history ledger with its undo dispatcher (commands/history.rs,   *)
(* database/mod.rs), over an explicit model of the file system they act on.*)
(*                                                                         *)
(* A path is a sequence of component names, <<"R", "a.jpg">> for /R/a.jpg; *)
(* names and all other text are strings, handled character by character    *)
(* with SubSeq, Len and \o.                                                *)
(***************************************************************************)
EXTENDS Integers, Sequences, FiniteSets, TLC

VARIABLES
    fs,             \* the file system: [files : path -> metadata, dirs : set of paths]
    ro,             \* directories whose entries cannot be created, removed or renamed
    xdev,           \* mount points: directories that start another device
    db_locked,      \* the database refuses writes (another connection holds the lock)
    history,        \* table history: row id = index
    rules,          \* table rules: sequence of rows in insertion (rowid) order
    default_rules,  \* table default_rules: sequence of rows in insertion order
    last,           \* the last command: its name, inputs and returned value
    watch           \* the shared FileWatcher, its channels and its consumer threads

vars == <<fs, ro, xdev, db_locked, history, rules, default_rules, last, watch>>

-----------------------------------------------------------------------------
(* Bounds of the model *)

\* commands stop recording once the history holds this many rows
MaxHistory == 2
\* conditions per rule in the evaluation of single rules
MaxConditions == 2
\* copy_file is not called once the file system holds more files than this
MaxFiles == 3

-----------------------------------------------------------------------------
(* Text *)

UpperChars == "ABCDEFGHIJKLMNOPQRSTUVWXYZ"
LowerChars == "abcdefghijklmnopqrstuvwxyz"
Digits == "0123456789"

CharAt(s, i) == SubSeq(s, i, i)

\* index of the one-character string c in s, 0 when absent
IndexOf(c, s) ==
    LET hits == {i \in 1..Len(s) : CharAt(s, i) = c}
    IN IF hits = {} THEN 0 ELSE CHOOSE i \in hits : \A j \in hits : i <= j

\* index of the last occurrence of c in s, 0 when absent
LastIndexOf(c, s) ==
    LET hits == {i \in 1..Len(s) : CharAt(s, i) = c}
    IN IF hits = {} THEN 0 ELSE CHOOSE i \in hits : \A j \in hits : i >= j

RECURSIVE to_lowercase(_)
to_lowercase(s) ==
    IF Len(s) = 0 THEN ""
    ELSE LET c == CharAt(s, 1)
             k == IndexOf(c, UpperChars)
         IN (IF k = 0 THEN c ELSE CharAt(LowerChars, k))
              \o to_lowercase(SubSeq(s, 2, Len(s)))

starts_with(s, p) == Len(p) <= Len(s) /\ SubSeq(s, 1, Len(p)) = p
ends_with(s, p) == Len(p) <= Len(s) /\ SubSeq(s, Len(s) - Len(p) + 1, Len(s)) = p
contains(s, p) ==
    \E i \in 1..(Len(s) + 1) : i + Len(p) - 1 <= Len(s) /\ SubSeq(s, i, i + Len(p) - 1) = p

\* str::parse::<u64>: an optional "+" then one or more decimal digits; -1 stands for Err
RECURSIVE parse_digits(_, _)
parse_digits(s, acc) ==
    IF Len(s) = 0 THEN acc
    ELSE LET d == IndexOf(CharAt(s, 1), Digits)
         IN IF d = 0 THEN -1 ELSE parse_digits(SubSeq(s, 2, Len(s)), acc * 10 + (d - 1))

parse_u64(s) ==
    LET body == IF starts_with(s, "+") THEN SubSeq(s, 2, Len(s)) ELSE s
    IN IF Len(body) = 0 THEN -1 ELSE parse_digits(body, 0)

-----------------------------------------------------------------------------
(* Paths (std::path) *)

Root == <<>>
NoPath == <<"<none>">>      \* an absent path field of a payload

join(p, name) == Append(p, name)
parent(p) == SubSeq(p, 1, Len(p) - 1)
file_name(p) == p[Len(p)]
IsPrefix(d, p) == Len(d) <= Len(p) /\ SubSeq(p, 1, Len(d)) = d

\* Path::extension: the text after the last dot of the name, unless the name has no
\* dot or starts with its only dot; "" stands for None
path_extension(name) ==
    LET k == LastIndexOf(".", name)
    IN IF k <= 1 THEN "" ELSE SubSeq(name, k + 1, Len(name))

\* Path::file_stem: the name without its extension
file_stem(name) ==
    LET k == LastIndexOf(".", name)
    IN IF k <= 1 THEN name ELSE SubSeq(name, 1, k - 1)

-----------------------------------------------------------------------------
(* The file system the commands act on (std::fs).  An operation returns     *)
(* [ok, fs]: whether it succeeded and the file system it leaves.            *)

exists(f, p) == p \in DOMAIN f.files \/ p \in f.dirs
is_dir(f, p) == p \in f.dirs
is_file(f, p) == p \in DOMAIN f.files

Children(f, d) == {p \in DOMAIN f.files \cup f.dirs : Len(p) = Len(d) + 1 /\ IsPrefix(d, p)}

\* a directory accepts changes to its entries
Writable(d) == d \notin ro
\* the device a directory lives on: 1 below a mount point, 0 otherwise
Device(d) == IF \E m \in xdev : IsPrefix(m, d) THEN 1 ELSE 0

Restrict(fn, S) == [x \in S |-> fn[x]]
Put(fn, k, v) == [x \in DOMAIN fn \cup {k} |-> IF x = k THEN v ELSE fn[x]]

Prefixes(p) == {SubSeq(p, 1, k) : k \in 0..Len(p)}

\* fs::create_dir_all: creates every missing ancestor, top down
fs_create_dir_all(f, p) ==
    LET missing == {d \in Prefixes(p) : d \notin f.dirs}
    IN IF missing = {} THEN [ok |-> TRUE, fs |-> f]
       ELSE IF \E d \in Prefixes(p) : is_file(f, d) THEN [ok |-> FALSE, fs |-> f]
       ELSE LET top == CHOOSE d \in missing : \A e \in missing : Len(d) <= Len(e)
            IN IF ~Writable(parent(top)) THEN [ok |-> FALSE, fs |-> f]
               ELSE [ok |-> TRUE, fs |-> [f EXCEPT !.dirs = @ \cup missing]]

Rebase(q, src, dst) == dst \o SubSeq(q, Len(src) + 1, Len(q))

\* fs::rename: atomic within one device; replaces an existing destination file
fs_rename(f, src, dst) ==
    LET fail == [ok |-> FALSE, fs |-> f]
    IN IF ~exists(f, src) \/ Len(dst) = 0 \/ Len(src) = 0 THEN fail
       ELSE IF ~is_dir(f, parent(dst)) THEN fail
       ELSE IF src = dst THEN [ok |-> TRUE, fs |-> f]
       ELSE IF ~Writable(parent(src)) \/ ~Writable(parent(dst)) THEN fail
       ELSE IF Device(parent(src)) # Device(parent(dst)) THEN fail
       ELSE IF is_file(f, src)
            THEN IF is_dir(f, dst) THEN fail
                 ELSE [ok |-> TRUE,
                       fs |-> [f EXCEPT !.files =
                                 Put(Restrict(@, DOMAIN @ \ {src}), dst, f.files[src])]]
            ELSE IF IsPrefix(src, dst) \/ is_file(f, dst)
                    \/ (is_dir(f, dst) /\ Children(f, dst) # {}) THEN fail
                 ELSE LET moved(q) == IF IsPrefix(src, q) THEN Rebase(q, src, dst) ELSE q
                          newFiles == {moved(q) : q \in DOMAIN f.files}
                          origin(n) == CHOOSE q \in DOMAIN f.files : moved(q) = n
                      IN [ok |-> TRUE,
                          fs |-> [files |-> [n \in newFiles |-> f.files[origin(n)]],
                                  dirs |-> {moved(q) : q \in f.dirs},
                                  trash |-> f.trash]]

\* fs::copy: copies the content of a regular file, replacing an existing destination
\* file; the copy is a new file with a fresh modification time
CopyStamp == "2024-03-01 00:00:00"
fs_copy(f, src, dst) ==
    LET fail == [ok |-> FALSE, fs |-> f]
    IN IF ~is_file(f, src) \/ Len(dst) = 0 THEN fail
       ELSE IF ~is_dir(f, parent(dst)) \/ is_dir(f, dst) THEN fail
       ELSE IF ~is_file(f, dst) /\ ~Writable(parent(dst)) THEN fail
       ELSE IF src = dst
            THEN \* the destination is truncated before the source is read
                 [ok |-> TRUE, fs |-> [f EXCEPT !.files[dst].data = ""]]
            ELSE [ok |-> TRUE,
                  fs |-> [f EXCEPT !.files =
                            Put(@, dst, [f.files[src] EXCEPT !.modified_at = CopyStamp])]]

\* fs::remove_file
fs_remove_file(f, p) ==
    IF is_file(f, p) /\ Writable(parent(p))
    THEN [ok |-> TRUE, fs |-> [f EXCEPT !.files = Restrict(@, DOMAIN @ \ {p})]]
    ELSE [ok |-> FALSE, fs |-> f]

\* fs::remove_dir: removes an empty directory only
fs_remove_dir(f, p) ==
    IF is_dir(f, p) /\ Len(p) > 0 /\ Children(f, p) = {} /\ Writable(parent(p))
    THEN [ok |-> TRUE, fs |-> [f EXCEPT !.dirs = @ \ {p}]]
    ELSE [ok |-> FALSE, fs |-> f]

-----------------------------------------------------------------------------
(* Classifier (services/classifier.rs).  A category is named as its Debug   *)
(* rendering, "Images"; the default_rules table keys it in lower case.      *)

ImagesExt == {".jpg", ".jpeg", ".png", ".gif", ".bmp", ".svg", ".webp", ".ico", ".psd",
              ".ai", ".tiff", ".raw", ".heic"}
DocumentsExt == {".pdf", ".doc", ".docx", ".xls", ".xlsx", ".ppt", ".pptx", ".hwp", ".txt",
                 ".rtf", ".odt", ".ods", ".odp", ".pages", ".numbers", ".key", ".epub"}
VideosExt == {".mp4", ".avi", ".mkv", ".mov", ".wmv", ".flv", ".webm", ".m4v", ".mpeg",
              ".mpg", ".3gp"}
MusicExt == {".mp3", ".wav", ".flac", ".aac", ".m4a", ".wma", ".ogg", ".opus", ".aiff",
             ".alac"}
ArchivesExt == {".zip", ".rar", ".7z", ".tar", ".gz", ".bz2", ".xz", ".lz", ".lzma", ".cab",
                ".iso"}
InstallersExt == {".exe", ".msi", ".dmg", ".pkg", ".deb", ".rpm", ".app", ".apk", ".appx"}
CodeExt == {".py", ".js", ".ts", ".tsx", ".jsx", ".html", ".css", ".scss", ".sass",
            ".less", ".java", ".cpp", ".c", ".h", ".hpp", ".cs", ".rs", ".go", ".rb",
            ".php", ".swift", ".kt", ".scala", ".json", ".xml", ".yaml", ".yml", ".toml",
            ".md", ".sh", ".bash", ".zsh", ".ps1", ".sql", ".r", ".m", ".lua", ".pl",
            ".vim", ".vue", ".svelte"}

classify_extension(extension) ==
    LET ext == to_lowercase(extension)
    IN CASE ext \in ImagesExt -> "Images"
         [] ext \in DocumentsExt -> "Documents"
         [] ext \in VideosExt -> "Videos"
         [] ext \in MusicExt -> "Music"
         [] ext \in ArchivesExt -> "Archives"
         [] ext \in InstallersExt -> "Installers"
         [] ext \in CodeExt -> "Code"
         [] OTHER -> "Others"

-----------------------------------------------------------------------------
(* Rule engine: inventory record and rule evaluation (commands/rules.rs)    *)

\* the FileInfo built for a directory entry that is a regular file
FileInfo(f, path) ==
    LET name == file_name(path)
        e == path_extension(name)
        extension == IF e = "" THEN "" ELSE "." \o to_lowercase(e)
        meta == f.files[path]
    IN [path |-> path,
        name |-> name,
        extension |-> extension,
        size |-> Len(meta.data),
        created_at |-> meta.created_at,
        modified_at |-> meta.modified_at,
        is_hidden |-> starts_with(name, "."),
        category |-> classify_extension(extension)]

\* Regex::new over the patterns of the model: a literal text with an optional leading
\* "^" and trailing "$"; a pattern holding an unclosed "(" or "[" does not compile
RegexBody(v) ==
    LET a == IF starts_with(v, "^") THEN SubSeq(v, 2, Len(v)) ELSE v
    IN IF ends_with(a, "$") THEN SubSeq(a, 1, Len(a) - 1) ELSE a

regex_new_ok(v) == ~contains(v, "(") /\ ~contains(v, "[")

regex_is_match(v, text) ==
    LET body == RegexBody(v)
        head == starts_with(v, "^")
        tail == Len(v) > 0 /\ ends_with(IF head THEN SubSeq(v, 2, Len(v)) ELSE v, "$")
    IN CASE head /\ tail -> text = body
         [] head /\ ~tail -> starts_with(text, body)
         [] ~head /\ tail -> ends_with(text, body)
         [] OTHER -> contains(text, body)

\* a variant that fails open: a pattern that does not compile, or a number that
\* does not parse, makes the condition true
evaluate_condition_fail_open(file, condition) ==
    IF condition.field \notin {"name", "extension", "size", "createdDate", "modifiedDate"}
    THEN FALSE
    ELSE
    LET field_value ==
            CASE condition.field = "name" -> file.name
              [] condition.field = "extension" -> file.extension
              [] condition.field = "size" -> ToString(file.size)
              [] condition.field = "createdDate" -> file.created_at
              [] condition.field = "modifiedDate" -> file.modified_at
        a == parse_u64(field_value)
        b == parse_u64(condition.value)
    IN CASE condition.operator = "equals" ->
              to_lowercase(field_value) = to_lowercase(condition.value)
         [] condition.operator = "contains" ->
              contains(to_lowercase(field_value), to_lowercase(condition.value))
         [] condition.operator = "startsWith" ->
              starts_with(to_lowercase(field_value), to_lowercase(condition.value))
         [] condition.operator = "endsWith" ->
              ends_with(to_lowercase(field_value), to_lowercase(condition.value))
         [] condition.operator = "greaterThan" ->
              IF a # -1 /\ b # -1 THEN a > b ELSE TRUE
         [] condition.operator = "lessThan" ->
              IF a # -1 /\ b # -1 THEN a < b ELSE TRUE
         [] condition.operator = "matches" ->
              IF regex_new_ok(condition.value)
              THEN regex_is_match(condition.value, field_value) ELSE TRUE
         [] OTHER -> FALSE

evaluate_condition(file, condition) ==
    IF condition.field \notin {"name", "extension", "size", "createdDate", "modifiedDate"}
    THEN FALSE
    ELSE
    LET field_value ==
            CASE condition.field = "name" -> file.name
              [] condition.field = "extension" -> file.extension
              [] condition.field = "size" -> ToString(file.size)
              [] condition.field = "createdDate" -> file.created_at
              [] condition.field = "modifiedDate" -> file.modified_at
        a == parse_u64(field_value)
        b == parse_u64(condition.value)
    IN CASE condition.operator = "equals" ->
              to_lowercase(field_value) = to_lowercase(condition.value)
         [] condition.operator = "contains" ->
              contains(to_lowercase(field_value), to_lowercase(condition.value))
         [] condition.operator = "startsWith" ->
              starts_with(to_lowercase(field_value), to_lowercase(condition.value))
         [] condition.operator = "endsWith" ->
              ends_with(to_lowercase(field_value), to_lowercase(condition.value))
         [] condition.operator = "greaterThan" ->
              IF a # -1 /\ b # -1 THEN a > b ELSE FALSE
         [] condition.operator = "lessThan" ->
              IF a # -1 /\ b # -1 THEN a < b ELSE FALSE
         [] condition.operator = "matches" ->
              IF regex_new_ok(condition.value)
              THEN regex_is_match(condition.value, field_value) ELSE FALSE
         [] OTHER -> FALSE

\* a variant that lets an empty list of conditions fall through to the quantifier
evaluate_rule_no_empty_check(file, rule) ==
    LET results == [i \in 1..Len(rule.conditions) |->
                        evaluate_condition(file, rule.conditions[i])]
    IN IF rule.condition_logic = "AND"
       THEN \A i \in 1..Len(results) : results[i]
       ELSE \E i \in 1..Len(results) : results[i]

evaluate_rule(file, rule) ==
    LET results == [i \in 1..Len(rule.conditions) |->
                        evaluate_condition(file, rule.conditions[i])]
    IN IF Len(results) = 0 THEN FALSE
       ELSE IF rule.condition_logic = "AND"
            THEN \A i \in 1..Len(results) : results[i]
            ELSE \E i \in 1..Len(results) : results[i]

-----------------------------------------------------------------------------
(* History ledger (database/mod.rs).  The payload (column details) is the   *)
(* JSON value the commands write, as one record: is_array tells the batch   *)
(* payload (an array of [original, new] pairs, in moves) from the tagged    *)
(* objects, whose absent members are NoPath / FALSE / <<>>.                 *)

Details(action) ==
    [is_array |-> FALSE, action |-> action, original_path |-> NoPath, new_path |-> NoPath,
     copied_path |-> NoPath, deleted_path |-> NoPath, to_trash |-> FALSE,
     moves |-> <<>>, files |-> <<>>]

MoveDetails(original, new) ==
    [Details("move") EXCEPT !.original_path = original, !.new_path = new]
RenameDetails(original, new) ==
    [Details("rename") EXCEPT !.original_path = original, !.new_path = new]
CopyDetails(copied) == [Details("copy") EXCEPT !.copied_path = copied]
DeleteDetails(path, to_trash) ==
    [Details("delete") EXCEPT !.deleted_path = path, !.to_trash = to_trash]
BatchDetails(move_details) == [Details("") EXCEPT !.is_array = TRUE, !.moves = move_details]

\* the id INSERT gives the new row
last_insert_rowid(h) == Len(h)

\* INSERT INTO history at the second now of the wall clock: the new row gets the
\* next id, is_undone = 0 and created_at = CURRENT_TIMESTAMP, which counts whole
\* seconds; the Err of a failed execute is ok = FALSE.  [ok, history, id]
add_history_at(h, operation_type, details, now) ==
    LET h2 == Append(h, [operation_type |-> operation_type, details |-> details,
                         is_undone |-> FALSE, created_at |-> now])
    IN IF db_locked THEN [ok |-> FALSE, history |-> h, id |-> 0]
       ELSE [ok |-> TRUE, history |-> h2, id |-> last_insert_rowid(h2)]

\* add_history as the file commands call it; where the listing order is not looked
\* at, every command runs within second 0
add_history(h, operation_type, details) == add_history_at(h, operation_type, details, 0)

\* SELECT ... WHERE id = ?1 finds a row
has_history_item(h, id) == id \in 1..Len(h)

\* UPDATE history SET is_undone = 1 WHERE id = ?1.  [ok, history]
mark_history_undone(h, id) ==
    IF db_locked THEN [ok |-> FALSE, history |-> h]
    ELSE [ok |-> TRUE,
          history |-> IF id \in 1..Len(h) THEN [h EXCEPT ![id].is_undone = TRUE] ELSE h]

-----------------------------------------------------------------------------
(* Rule tables (commands/rules.rs) *)

\* the sequences that list every element of S once
RECURSIVE Perms(_)
Perms(S) ==
    IF S = {} THEN {<<>>}
    ELSE UNION {{<<x>> \o p : p \in Perms(S \ {x})} : x \in S}

Range(s) == {s[i] : i \in 1..Len(s)}

\* the index idx_history_created: one entry (created_at, rowid) per row, in
\* ascending order.  A sequence of ids
idx_history_created(h) ==
    CHOOSE p \in Perms(1..Len(h)) :
        \A i, j \in 1..Len(h) :
            i < j => \/ h[p[i]].created_at < h[p[j]].created_at
                     \/ h[p[i]].created_at = h[p[j]].created_at /\ p[i] < p[j]

\* LIMIT ?1 OFFSET ?2 of a sequence of rows; a negative LIMIT is no limit and a
\* negative OFFSET is 0, as SQLite has it
limit_offset(rows, limit, offset) ==
    LET from == IF offset < 0 THEN 1 ELSE offset + 1
        to == IF limit < 0 \/ from + limit - 1 > Len(rows) THEN Len(rows)
              ELSE from + limit - 1
    IN SubSeq(rows, from, to)

\* a variant that reads the table in rowid order and sorts it by created_at DESC,
\* rows of the same second staying in rowid order
get_history_sorted_scan(h, limit, offset) ==
    LET sorted == CHOOSE p \in Perms(1..Len(h)) :
                     \A i, j \in 1..Len(h) :
                         i < j => \/ h[p[i]].created_at > h[p[j]].created_at
                                  \/ h[p[i]].created_at = h[p[j]].created_at /\ p[i] < p[j]
    IN limit_offset(sorted, limit, offset)

\* get_history(limit, offset): ORDER BY created_at DESC LIMIT ?1 OFFSET ?2, which
\* SQLite answers by scanning idx_history_created backwards, so that rows of the
\* same second come with the larger rowid first.  The ids of the rows listed
get_history(h, limit, offset) ==
    LET index == idx_history_created(h)
        backwards == [i \in 1..Len(index) |-> index[Len(index) + 1 - i]]
    IN limit_offset(backwards, limit, offset)

\* a variant that returns the rows by ascending priority
get_rules_internal_ascending(table) ==
    {s \in Perms(Range(table)) :
        \A i, j \in 1..Len(s) : i < j => s[i].priority <= s[j].priority}

\* the orders SELECT ... FROM rules ORDER BY priority DESC may return the rows in:
\* rows of equal priority come in an order the query does not fix
get_rules_internal(table) ==
    {s \in Perms(Range(table)) :
        \A i, j \in 1..Len(s) : i < j => s[i].priority >= s[j].priority}

DefaultCategories ==
    << <<"images", "Images", 0>>, <<"documents", "Documents", 1>>,
       <<"videos", "Videos", 2>>, <<"music", "Music", 3>>,
       <<"archives", "Archives", 4>>, <<"installers", "Installers", 5>>,
       <<"code", "Code", 6>>, <<"others", "Others", 7>> >>

\* the default_rules table after the read: seeded with the eight categories, enabled,
\* when it was empty; the Err of a failed INSERT is ok = FALSE.  [ok, table]
\* The rows are used through find on the unique category only.
get_default_rules_internal(table) ==
    IF Len(table) # 0 THEN [ok |-> TRUE, table |-> table]
    ELSE IF db_locked THEN [ok |-> FALSE, table |-> table]
    ELSE [ok |-> TRUE,
          table |-> [i \in 1..Len(DefaultCategories) |->
                        [id |-> i, category |-> DefaultCategories[i][1], enabled |-> TRUE,
                         destination |-> DefaultCategories[i][2],
                         create_date_subfolder |-> FALSE,
                         priority |-> DefaultCategories[i][3]]]]

Enabled(r) == r.enabled

\* a variant that looks for the category's default rule before the custom rules
preview_file_default_first(file_info, source, enabled_custom_rules, enabled_default_rules) ==
    LET hits == {i \in 1..Len(enabled_custom_rules) :
                    evaluate_rule(file_info, enabled_custom_rules[i])}
        category_str == to_lowercase(file_info.category)
        found == {i \in 1..Len(enabled_default_rules) :
                    enabled_default_rules[i].category = category_str}
    IN IF found # {}
       THEN LET default_rule ==
                    enabled_default_rules[CHOOSE i \in found : \A j \in found : i <= j]
            IN << [file |-> file_info, match_type |-> "default", rule |-> <<>>,
                   default_rule |-> <<default_rule>>,
                   destination |-> join(source, default_rule.destination)] >>
       ELSE IF hits # {}
       THEN LET rule == enabled_custom_rules[CHOOSE i \in hits : \A j \in hits : i <= j]
            IN << [file |-> file_info, match_type |-> "custom", rule |-> <<rule>>,
                   default_rule |-> <<>>,
                   destination |-> IF rule.action_destination = NoPath THEN Root
                                   ELSE rule.action_destination] >>
       ELSE <<>>

\* the verdict for one eligible file: the first enabled custom rule that matches, else
\* the enabled default rule of the category, else none (an empty sequence)
preview_file(file_info, source, enabled_custom_rules, enabled_default_rules) ==
    LET hits == {i \in 1..Len(enabled_custom_rules) :
                    evaluate_rule(file_info, enabled_custom_rules[i])}
        category_str == to_lowercase(file_info.category)
        found == {i \in 1..Len(enabled_default_rules) :
                    enabled_default_rules[i].category = category_str}
    IN IF hits # {}
       THEN LET rule == enabled_custom_rules[CHOOSE i \in hits : \A j \in hits : i <= j]
            IN << [file |-> file_info, match_type |-> "custom", rule |-> <<rule>>,
                   default_rule |-> <<>>,
                   destination |-> IF rule.action_destination = NoPath THEN Root
                                   ELSE rule.action_destination] >>
       ELSE IF found # {}
       THEN LET default_rule ==
                    enabled_default_rules[CHOOSE i \in found : \A j \in found : i <= j]
            IN << [file |-> file_info, match_type |-> "default", rule |-> <<>>,
                   default_rule |-> <<default_rule>>,
                   destination |-> join(source, default_rule.destination)] >>
       ELSE <<>>

\* a directory entry takes part: not a directory, not a dot file
Eligible(f, path) == ~is_dir(f, path) /\ ~starts_with(file_name(path), ".")

RECURSIVE preview_entries(_, _, _, _, _)
preview_entries(f, source, enabled_custom_rules, enabled_default_rules, entries) ==
    IF Len(entries) = 0 THEN <<>>
    ELSE LET path == Head(entries)
             rest == preview_entries(f, source, enabled_custom_rules,
                                     enabled_default_rules, Tail(entries))
         IN IF ~Eligible(f, path) THEN rest
            ELSE preview_file(FileInfo(f, path), source, enabled_custom_rules,
                              enabled_default_rules) \o rest

\* preview_unified_internal, given the order the rules query returned, the table
\* default_rules and the order read_dir lists the entries in; ok = FALSE stands for
\* the Err returns, table is the table default_rules it leaves
preview_unified_internal(f, custom_rules, default_table, source, entries) ==
    LET defaults == get_default_rules_internal(default_table)
    IN IF ~defaults.ok THEN [ok |-> FALSE, table |-> defaults.table, previews |-> <<>>]
       ELSE IF ~is_dir(f, source)
       THEN [ok |-> FALSE, table |-> defaults.table, previews |-> <<>>]
       ELSE [ok |-> TRUE, table |-> defaults.table,
             previews |-> preview_entries(f, source, SelectSeq(custom_rules, Enabled),
                                          SelectSeq(defaults.table, Enabled), entries)]

-----------------------------------------------------------------------------
(* Unified organization: execute_unified (commands/rules.rs)                *)

\* the YYYY-MM prefix of a formatted time
date_folder(modified_at) == SubSeq(modified_at, 1, 7)

\* the folder a plan entry sends its file to
unified_dest_folder(preview, source) ==
    IF preview.match_type = "custom"
    THEN LET rule == preview.rule[1]
             dest == IF rule.action_destination = NoPath THEN Root
                     ELSE rule.action_destination
         IN IF rule.create_date_subfolder /\ Len(preview.file.modified_at) >= 7
            THEN join(dest, date_folder(preview.file.modified_at)) ELSE dest
    ELSE LET default_rule == preview.default_rule[1]
             dest == join(source, default_rule.destination)
         IN IF default_rule.create_date_subfolder /\ Len(preview.file.modified_at) >= 7
            THEN join(dest, date_folder(preview.file.modified_at)) ELSE dest

\* fs::rename, then on failure fs::copy and fs::remove_file of the source.
\* outcome: "renamed", "copied" (source removed), "copied_kept" (source could not
\* be removed) or "failed" (the copy failed too)
move_with_fallback(f, source_file, dest_file) ==
    LET rn == fs_rename(f, source_file, dest_file)
        cp == fs_copy(f, source_file, dest_file)
        rm == fs_remove_file(cp.fs, source_file)
    IN IF rn.ok THEN [outcome |-> "renamed", fs |-> rn.fs]
       ELSE IF ~cp.ok THEN [outcome |-> "failed", fs |-> f]
       ELSE IF rm.ok THEN [outcome |-> "copied", fs |-> rm.fs]
       ELSE [outcome |-> "copied_kept", fs |-> cp.fs]

\* one iteration of execute_unified's loop over the plan
unified_step(acc, preview, source, excluded) ==
    IF preview.destination \in excluded
    THEN [acc EXCEPT !.files_skipped = @ + 1]
    ELSE
    LET source_file == preview.file.path
        dest_folder == unified_dest_folder(preview, source)
        mk == fs_create_dir_all(acc.fs, dest_folder)
        dest_file == join(dest_folder, preview.file.name)
        mv == move_with_fallback(mk.fs, source_file, dest_file)
    IN IF ~mk.ok
       THEN [acc EXCEPT !.errors = Append(@, <<"create_dir_failed", dest_folder>>),
                        !.files_skipped = @ + 1]
       ELSE IF mv.outcome = "failed"
       THEN [acc EXCEPT !.fs = mv.fs,
                        !.errors = Append(@, <<"move_failed", preview.file.name>>),
                        !.files_skipped = @ + 1]
       ELSE [acc EXCEPT !.fs = mv.fs,
                        !.errors = IF mv.outcome = "copied_kept"
                                   THEN Append(@, <<"remove_source_failed", preview.file.name>>)
                                   ELSE @,
                        !.move_details = Append(@, <<source_file, dest_file>>),
                        !.files_moved = @ + 1]

RECURSIVE unified_loop(_, _, _, _)
unified_loop(acc, previews, source, excluded) ==
    IF Len(previews) = 0 THEN acc
    ELSE unified_loop(unified_step(acc, Head(previews), source, excluded),
                      Tail(previews), source, excluded)

\* a variant that records the batch only when a file was moved, as execute_rules does
execute_unified_unless_empty(f, h, previews, source, excluded) ==
    LET acc == unified_loop([fs |-> f, files_moved |-> 0, files_skipped |-> 0,
                             errors |-> <<>>, move_details |-> <<>>],
                            previews, source, excluded)
        added == IF acc.files_moved > 0
                 THEN add_history(h, "organize", BatchDetails(acc.move_details))
                 ELSE [ok |-> FALSE, history |-> h, id |-> 0]
    IN [fs |-> acc.fs, history |-> added.history,
        result |-> [success |-> Len(acc.errors) = 0, files_moved |-> acc.files_moved,
                    files_skipped |-> acc.files_skipped, errors |-> acc.errors,
                    history_id |-> IF added.ok THEN added.id ELSE -1]]

\* execute_unified after the plan is made: the loop, then the history record, whose
\* failure only turns history_id into -1.
\* Returns the file system and history it leaves and the UnifiedOrganizeResult.
execute_unified(f, h, previews, source, excluded) ==
    LET acc == unified_loop([fs |-> f, files_moved |-> 0, files_skipped |-> 0,
                             errors |-> <<>>, move_details |-> <<>>],
                            previews, source, excluded)
        added == add_history(h, "organize", BatchDetails(acc.move_details))
    IN [fs |-> acc.fs, history |-> added.history,
        result |-> [success |-> Len(acc.errors) = 0, files_moved |-> acc.files_moved,
                    files_skipped |-> acc.files_skipped, errors |-> acc.errors,
                    history_id |-> IF added.ok THEN added.id ELSE -1]]

-----------------------------------------------------------------------------
(* Rule-driven execution: execute_rules (commands/rules.rs)                 *)

\* the first enabled rule that matches, as a RuleMatch, or none
match_file(file_info, enabled_rules) ==
    LET hits == {i \in 1..Len(enabled_rules) : evaluate_rule(file_info, enabled_rules[i])}
    IN IF hits = {} THEN <<>>
       ELSE << [file |-> file_info,
                rule |-> enabled_rules[CHOOSE i \in hits : \A j \in hits : i <= j]] >>

RECURSIVE match_entries(_, _, _)
match_entries(f, enabled_rules, entries) ==
    IF Len(entries) = 0 THEN <<>>
    ELSE LET path == Head(entries)
             rest == match_entries(f, enabled_rules, Tail(entries))
         IN IF ~Eligible(f, path) THEN rest
            ELSE match_file(FileInfo(f, path), enabled_rules) \o rest

compute_matches(f, source, enabled_rules, entries) ==
    IF ~is_dir(f, source) THEN [ok |-> FALSE, matches |-> <<>>]
    ELSE [ok |-> TRUE, matches |-> match_entries(f, enabled_rules, entries)]

\* get_rules: the same query as get_rules_internal, behind the command
get_rules(table) == get_rules_internal(table)

\* preview_rules, given the order the query returned the rules in and the order
\* read_dir lists the entries in: the loop of compute_matches, written out again
preview_rules(f, all_rules, source, entries) ==
    LET enabled_rules == SelectSeq(all_rules, Enabled)
    IN IF Len(enabled_rules) = 0 THEN [ok |-> TRUE, matches |-> <<>>]
       ELSE IF ~is_dir(f, source) THEN [ok |-> FALSE, matches |-> <<>>]
       ELSE [ok |-> TRUE, matches |-> match_entries(f, enabled_rules, entries)]

\* trash::delete: the file leaves its directory for the trash
trash_delete(f, p) ==
    IF is_file(f, p) /\ Writable(parent(p))
    THEN [ok |-> TRUE,
          fs |-> [f EXCEPT !.files = Restrict(@, DOMAIN @ \ {p}),
                           !.trash = @ \cup {[path |-> p, data |-> f.files[p].data]}]]
    ELSE [ok |-> FALSE, fs |-> f]

\* the folder a rule's "move" or "copy" action puts the file in, and the path there
action_dest_path(rule, file) ==
    IF rule.create_date_subfolder
    THEN join(rule.action_destination, date_folder(file.modified_at))
    ELSE rule.action_destination

action_final_path(rule, file) == join(action_dest_path(rule, file), file.name)

\* the "move" arm: Result of fs::rename(..).map_err(closure)?  The closure runs when
\* the rename fails, and whatever it does, map_err keeps the result an Err.
execute_action_move(rule, file, f) ==
    LET dest_path == action_dest_path(rule, file)
        mk == fs_create_dir_all(f, dest_path)
        final_path == action_final_path(rule, file)
        rn == fs_rename(mk.fs, file.path, final_path)
        cp == fs_copy(mk.fs, file.path, final_path)
        rm == fs_remove_file(cp.fs, file.path)
    IN IF rule.action_destination = NoPath
       THEN [ok |-> FALSE, fs |-> f, new_path |-> NoPath, err |-> "no_destination"]
       ELSE IF ~mk.ok
       THEN [ok |-> FALSE, fs |-> f, new_path |-> NoPath, err |-> "create_dir_failed"]
       ELSE IF rn.ok
       THEN [ok |-> TRUE, fs |-> rn.fs, new_path |-> final_path, err |-> ""]
       ELSE IF ~cp.ok
       THEN [ok |-> FALSE, fs |-> mk.fs, new_path |-> NoPath, err |-> "move_failed"]
       ELSE [ok |-> FALSE, fs |-> rm.fs, new_path |-> NoPath, err |-> "rename_error"]

execute_action_copy(rule, file, f) ==
    LET dest_path == action_dest_path(rule, file)
        mk == fs_create_dir_all(f, dest_path)
        final_path == action_final_path(rule, file)
        cp == fs_copy(mk.fs, file.path, final_path)
    IN IF rule.action_destination = NoPath
       THEN [ok |-> FALSE, fs |-> f, new_path |-> NoPath, err |-> "no_destination"]
       ELSE IF ~mk.ok
       THEN [ok |-> FALSE, fs |-> f, new_path |-> NoPath, err |-> "create_dir_failed"]
       ELSE IF ~cp.ok
       THEN [ok |-> FALSE, fs |-> mk.fs, new_path |-> NoPath, err |-> "copy_failed"]
       ELSE [ok |-> TRUE, fs |-> cp.fs, new_path |-> final_path, err |-> ""]

execute_action(rule, file, f) ==
    CASE rule.action_type = "move" -> execute_action_move(rule, file, f)
      [] rule.action_type = "copy" -> execute_action_copy(rule, file, f)
      [] rule.action_type = "delete" ->
            LET td == trash_delete(f, file.path)
            IN IF td.ok
               THEN [ok |-> TRUE, fs |-> td.fs, new_path |-> file.path, err |-> ""]
               ELSE [ok |-> FALSE, fs |-> f, new_path |-> NoPath, err |-> "trash_failed"]
      [] OTHER -> [ok |-> FALSE, fs |-> f, new_path |-> NoPath, err |-> "unsupported_action"]

\* one iteration of execute_rules' loop over the matches
rules_step(acc, rule_match) ==
    LET result == execute_action(rule_match.rule, rule_match.file, acc.fs)
    IN IF result.ok
       THEN [acc EXCEPT !.fs = result.fs,
                        !.move_details = Append(@, <<rule_match.file.path, result.new_path>>),
                        !.executed_count = @ + 1]
       ELSE [acc EXCEPT !.fs = result.fs,
                        !.errors = Append(@, <<rule_match.file.name, result.err>>),
                        !.skipped_count = @ + 1]

RECURSIVE rules_loop(_, _)
rules_loop(acc, matches) ==
    IF Len(matches) = 0 THEN acc
    ELSE rules_loop(rules_step(acc, Head(matches)), Tail(matches))

\* execute_rules after the matches are computed: the loop, then the history record,
\* written only when at least one action succeeded, its result ignored
execute_rules(f, h, matches) ==
    LET acc == rules_loop([fs |-> f, executed_count |-> 0, skipped_count |-> 0,
                           errors |-> <<>>, move_details |-> <<>>], matches)
    IN [fs |-> acc.fs,
        history |-> IF acc.executed_count > 0
                    THEN add_history(h, "organize", BatchDetails(acc.move_details)).history
                    ELSE h,
        result |-> [success |-> Len(acc.errors) = 0, executed_count |-> acc.executed_count,
                    skipped_count |-> acc.skipped_count, errors |-> acc.errors]]

-----------------------------------------------------------------------------
(* Direct mutation commands (commands/file_ops.rs)                          *)

\* the counter get_unique_path stops at: the first N >= 1 whose name is free
RECURSIVE unique_counter(_, _, _)
unique_counter(f, path, counter) ==
    LET name == file_name(path)
        stem == file_stem(name)
        extension == path_extension(name)
        new_name == IF extension = "" THEN stem \o "_" \o ToString(counter)
                    ELSE stem \o "_" \o ToString(counter) \o "." \o extension
    IN IF ~exists(f, join(parent(path), new_name)) THEN join(parent(path), new_name)
       ELSE unique_counter(f, path, counter + 1)

\* a variant that keeps the name although it is taken
get_unique_path_taken(f, path) == path

get_unique_path(f, path) == IF ~exists(f, path) THEN path ELSE unique_counter(f, path, 1)

\* move_file(source, dest, overwrite): [ok, fs, history, value]
move_file(f, h, source, dest, overwrite) ==
    LET dest1 == IF is_dir(f, dest) /\ Len(source) > 0 THEN join(dest, file_name(source))
                 ELSE dest
        conflict == exists(f, dest1)
        rmv == fs_remove_file(f, dest1)
        dest_path == IF conflict /\ overwrite = "rename" THEN get_unique_path(f, dest1)
                     ELSE dest1
        f1 == IF conflict /\ overwrite = "overwrite" THEN rmv.fs ELSE f
        mk == fs_create_dir_all(f1, parent(dest_path))
        rn == fs_rename(mk.fs, source, dest_path)
        added == add_history(h, "move", MoveDetails(source, dest_path))
    IN IF ~exists(f, source)
       THEN [ok |-> FALSE, fs |-> f, history |-> h, value |-> "Source file does not exist"]
       ELSE IF conflict /\ overwrite = "overwrite" /\ ~rmv.ok
       THEN [ok |-> FALSE, fs |-> f, history |-> h, value |-> "remove_file"]
       ELSE IF conflict /\ overwrite = "skip"
       THEN [ok |-> TRUE, fs |-> f, history |-> h, value |-> dest_path]
       ELSE IF Len(dest_path) > 0 /\ ~mk.ok
       THEN [ok |-> FALSE, fs |-> f1, history |-> h, value |-> "create_dir_all"]
       ELSE IF ~rn.ok
       THEN [ok |-> FALSE, fs |-> mk.fs, history |-> h, value |-> "rename"]
       ELSE IF ~added.ok
       THEN [ok |-> FALSE, fs |-> rn.fs, history |-> h, value |-> "add_history"]
       ELSE [ok |-> TRUE, fs |-> rn.fs, history |-> added.history, value |-> dest_path]

\* a variant that renames without looking at the new path first
rename_file_no_conflict_check(f, h, path, new_name) ==
    LET new_path == join(parent(path), new_name)
        rn == fs_rename(f, path, new_path)
        added == add_history(h, "rename", RenameDetails(path, new_path))
    IN IF ~exists(f, path)
       THEN [ok |-> FALSE, fs |-> f, history |-> h, value |-> "File does not exist"]
       ELSE IF Len(path) = 0
       THEN [ok |-> FALSE, fs |-> f, history |-> h, value |-> "Cannot get parent directory"]
       ELSE IF ~rn.ok
       THEN [ok |-> FALSE, fs |-> f, history |-> h, value |-> "rename"]
       ELSE IF ~added.ok
       THEN [ok |-> FALSE, fs |-> rn.fs, history |-> h, value |-> "add_history"]
       ELSE [ok |-> TRUE, fs |-> rn.fs, history |-> added.history, value |-> new_path]

\* rename_file(path, new_name): [ok, fs, history, value]
rename_file(f, h, path, new_name) ==
    LET new_path == join(parent(path), new_name)
        rn == fs_rename(f, path, new_path)
        added == add_history(h, "rename", RenameDetails(path, new_path))
    IN IF ~exists(f, path)
       THEN [ok |-> FALSE, fs |-> f, history |-> h, value |-> "File does not exist"]
       ELSE IF Len(path) = 0
       THEN [ok |-> FALSE, fs |-> f, history |-> h, value |-> "Cannot get parent directory"]
       ELSE IF exists(f, new_path)
       THEN [ok |-> FALSE, fs |-> f, history |-> h, value |-> "File already exists"]
       ELSE IF ~rn.ok
       THEN [ok |-> FALSE, fs |-> f, history |-> h, value |-> "rename"]
       ELSE IF ~added.ok
       THEN [ok |-> FALSE, fs |-> rn.fs, history |-> h, value |-> "add_history"]
       ELSE [ok |-> TRUE, fs |-> rn.fs, history |-> added.history, value |-> new_path]

\* the body of copy_file; on_skip tells whether a call resolved by Skip writes a
\* history entry
copy_file_body(f, h, source, dest, overwrite, on_skip) ==
    LET dest1 == IF is_dir(f, dest) /\ Len(source) > 0 THEN join(dest, file_name(source))
                 ELSE dest
        conflict == exists(f, dest1)
        rmv == fs_remove_file(f, dest1)
        dest_path == IF conflict /\ overwrite = "rename" THEN get_unique_path(f, dest1)
                     ELSE dest1
        f1 == IF conflict /\ overwrite = "overwrite" THEN rmv.fs ELSE f
        mk == fs_create_dir_all(f1, parent(dest_path))
        cp == fs_copy(mk.fs, source, dest_path)
        added == add_history(h, "copy", CopyDetails(dest_path))
    IN IF ~exists(f, source)
       THEN [ok |-> FALSE, fs |-> f, history |-> h, value |-> "Source file does not exist"]
       ELSE IF conflict /\ overwrite = "overwrite" /\ ~rmv.ok
       THEN [ok |-> FALSE, fs |-> f, history |-> h, value |-> "remove_file"]
       ELSE IF conflict /\ overwrite = "skip"
       THEN [ok |-> TRUE, fs |-> f, history |-> IF on_skip THEN added.history ELSE h,
             value |-> dest_path]
       ELSE IF Len(dest_path) > 0 /\ ~mk.ok
       THEN [ok |-> FALSE, fs |-> f1, history |-> h, value |-> "create_dir_all"]
       ELSE IF ~cp.ok
       THEN [ok |-> FALSE, fs |-> mk.fs, history |-> h, value |-> "copy"]
       ELSE IF ~added.ok
       THEN [ok |-> FALSE, fs |-> cp.fs, history |-> h, value |-> "add_history"]
       ELSE [ok |-> TRUE, fs |-> cp.fs, history |-> added.history, value |-> dest_path]

\* a variant that records a history entry also when Skip resolved the call
copy_file_records_skip(f, h, source, dest, overwrite) ==
    copy_file_body(f, h, source, dest, overwrite, TRUE)

\* copy_file(source, dest, overwrite): [ok, fs, history, value]
copy_file(f, h, source, dest, overwrite) ==
    copy_file_body(f, h, source, dest, overwrite, FALSE)

\* fs::remove_dir_all: the directory and everything below it
fs_remove_dir_all(f, p) ==
    LET below(q) == IsPrefix(p, q)
    IN IF is_dir(f, p) /\ Len(p) > 0 /\ Writable(parent(p))
          /\ \A d \in f.dirs : (below(d) /\ Children(f, d) # {}) => Writable(d)
       THEN [ok |-> TRUE,
             fs |-> [f EXCEPT !.files = Restrict(@, {q \in DOMAIN @ : ~below(q)}),
                              !.dirs = {d \in @ : ~below(d)}]]
       ELSE [ok |-> FALSE, fs |-> f]

\* trash::delete on a file or on a directory with what it holds
trash_delete_path(f, p) ==
    LET below(q) == IsPrefix(p, q)
    IN IF is_file(f, p) THEN trash_delete(f, p)
       ELSE IF is_dir(f, p) /\ Len(p) > 0 /\ Writable(parent(p))
       THEN [ok |-> TRUE,
             fs |-> [f EXCEPT !.files = Restrict(@, {q \in DOMAIN @ : ~below(q)}),
                              !.dirs = {d \in @ : ~below(d)},
                              !.trash = @ \cup {[path |-> q, data |-> f.files[q].data] :
                                                   q \in {x \in DOMAIN f.files : below(x)}}]]
       ELSE [ok |-> FALSE, fs |-> f]

\* delete_file(path, to_trash): [ok, fs, history, value]
delete_file(f, h, path, to_trash) ==
    LET rm == IF to_trash THEN trash_delete_path(f, path)
              ELSE IF is_dir(f, path) THEN fs_remove_dir_all(f, path)
              ELSE fs_remove_file(f, path)
        added == add_history(h, "delete", DeleteDetails(path, to_trash))
    IN IF ~exists(f, path)
       THEN [ok |-> FALSE, fs |-> f, history |-> h, value |-> "File does not exist"]
       ELSE IF ~rm.ok
       THEN [ok |-> FALSE, fs |-> f, history |-> h, value |-> "delete"]
       ELSE IF ~added.ok
       THEN [ok |-> FALSE, fs |-> rm.fs, history |-> h, value |-> "add_history"]
       ELSE [ok |-> TRUE, fs |-> rm.fs, history |-> added.history, value |-> ""]

\* create_folder(path): [ok, fs, value]; it does not touch the history
create_folder(f, path) ==
    LET mk == fs_create_dir_all(f, path)
    IN IF exists(f, path) THEN [ok |-> FALSE, fs |-> f, value |-> "Folder already exists"]
       ELSE IF ~mk.ok THEN [ok |-> FALSE, fs |-> f, value |-> "create_dir_all"]
       ELSE [ok |-> TRUE, fs |-> mk.fs, value |-> ""]

-----------------------------------------------------------------------------
(* Folder comparison and merge (commands/folder_compare.rs) *)

\* the characters of the model's names and timestamps, in byte order
Ascii == " ()-./" \o Digits \o ":" \o UpperChars \o "_" \o LowerChars

\* a < b as str::cmp and SystemTime order it (a timestamp text orders as its time)
RECURSIVE str_less(_, _)
str_less(a, b) ==
    IF Len(b) = 0 THEN FALSE
    ELSE IF Len(a) = 0 THEN TRUE
    ELSE IF CharAt(a, 1) = CharAt(b, 1) THEN str_less(Tail(a), Tail(b))
    ELSE IndexOf(CharAt(a, 1), Ascii) < IndexOf(CharAt(b, 1), Ascii)

\* a relative path as text: its names joined by "/"
RECURSIVE relative_path(_)
relative_path(rel) ==
    IF Len(rel) = 0 THEN ""
    ELSE IF Len(rel) = 1 THEN rel[1]
    ELSE rel[1] \o "/" \o relative_path(Tail(rel))

\* compute_file_hash: xxh3_64 over the first 64 KiB, the last 64 KiB of a file
\* larger than 128 KiB, and the size; the digest is taken as one-to-one on what
\* is hashed
QuickHashWindow == 65536
QuickHashBothEnds == 131072
compute_file_hash(meta) ==
    LET file_size == Len(meta.data)
        first == SubSeq(meta.data, 1, IF QuickHashWindow < file_size THEN QuickHashWindow
                                      ELSE file_size)
        end_buffer == IF file_size > QuickHashBothEnds
                      THEN SubSeq(meta.data, file_size - QuickHashWindow + 1, file_size)
                      ELSE ""
    IN <<first, end_buffer, file_size>>

\* compare_folders(source, target): [ok, results], the results sorted by relative
\* path; a result is [rel, status, size]
compare_folders(f, source, target) ==
    LET walk(root) == {SubSeq(q, Len(root) + 1, Len(q)) :
                          q \in {x \in DOMAIN f.files : IsPrefix(root, x)}}
        status(rel) ==
            IF rel \notin walk(source) THEN "only_in_target"
            ELSE IF rel \notin walk(target) THEN "only_in_source"
            ELSE IF compute_file_hash(f.files[source \o rel])
                      = compute_file_hash(f.files[target \o rel])
            THEN "identical" ELSE "different"
        all == walk(source) \cup walk(target)
        sorted == CHOOSE p \in Perms(all) :
                     \A i, j \in 1..Len(p) :
                         i < j => str_less(relative_path(p[i]), relative_path(p[j]))
    IN IF ~exists(f, source) \/ ~exists(f, target) THEN [ok |-> FALSE, results |-> <<>>]
       ELSE [ok |-> TRUE,
             results |-> [i \in 1..Len(sorted) |->
                            [rel |-> sorted[i], status |-> status(sorted[i]),
                             size |-> IF sorted[i] \in walk(source)
                                      THEN Len(f.files[source \o sorted[i]].data) ELSE 0]]]

\* copy_file_with_parents: create_dir_all(parent), then fs::copy
copy_file_with_parents(f, source, target) ==
    LET mk == fs_create_dir_all(f, parent(target))
        cp == fs_copy(mk.fs, source, target)
    IN IF Len(target) > 0 /\ ~mk.ok THEN [ok |-> FALSE, fs |-> f]
       ELSE IF ~cp.ok THEN [ok |-> FALSE, fs |-> mk.fs]
       ELSE [ok |-> TRUE, fs |-> cp.fs]

\* generate_unique_path: stem_N.ext for the first N >= 1 that is free
RECURSIVE generate_unique_path(_, _, _)
generate_unique_path(f, path, counter) ==
    LET name == file_name(path)
        extension == IF path_extension(name) = "" THEN "" ELSE "." \o path_extension(name)
        new_path == join(parent(path), file_stem(name) \o "_" \o ToString(counter)
                                       \o extension)
    IN IF ~exists(f, new_path) THEN new_path
       ELSE generate_unique_path(f, path, counter + 1)

\* one result of the comparison in the loop of merge_folders; acc is [fs,
\* files_copied, files_skipped, files_overwritten, bytes_transferred, errors]
merge_step(acc, result, source, target, options) ==
    LET f == acc.fs
        should_copy == CASE result.status = "only_in_source" -> options.include_only_in_source
                         [] result.status = "different" -> options.include_different
                         [] OTHER -> FALSE
        source_file == source \o result.rel
        target_file_path == target \o result.rel
        there == exists(f, target_file_path)
        source_modified == IF is_file(f, source_file) THEN f.files[source_file].modified_at
                           ELSE ""
        target_modified == IF is_file(f, target_file_path)
                           THEN f.files[target_file_path].modified_at ELSE ""
        both == source_modified # "" /\ target_modified # ""
        renamed == copy_file_with_parents(f, source_file,
                                          generate_unique_path(f, target_file_path, 1))
        \* the match on the strategy when the target exists
        acc1 == IF ~there THEN acc
                ELSE CASE options.strategy = "skip_existing" ->
                            [acc EXCEPT !.files_skipped = @ + 1]
                       [] options.strategy = "rename" ->
                            IF renamed.ok
                            THEN [acc EXCEPT !.fs = renamed.fs, !.files_copied = @ + 1,
                                             !.bytes_transferred = @ + result.size]
                            ELSE [acc EXCEPT !.fs = renamed.fs,
                                             !.errors = Append(@, <<"copy", result.rel>>)]
                       [] OTHER -> acc
        should_overwrite ==
            IF ~there THEN TRUE
            ELSE CASE options.strategy = "overwrite_all" -> TRUE
                   [] options.strategy = "overwrite_newer" ->
                        both /\ str_less(target_modified, source_modified)
                   [] options.strategy = "overwrite_older" ->
                        both /\ str_less(source_modified, target_modified)
                   [] OTHER -> FALSE
        copied == copy_file_with_parents(acc1.fs, source_file, target_file_path)
    IN IF ~should_copy
       THEN IF result.status \in {"identical", "only_in_target"}
            THEN [acc EXCEPT !.files_skipped = @ + 1] ELSE acc
       ELSE IF ~(should_overwrite \/ ~exists(acc1.fs, target_file_path)) THEN acc1
       ELSE IF ~copied.ok
       THEN [acc1 EXCEPT !.fs = copied.fs, !.errors = Append(@, <<"copy", result.rel>>)]
       ELSE IF result.status = "different"
       THEN [acc1 EXCEPT !.fs = copied.fs, !.files_overwritten = @ + 1,
                         !.bytes_transferred = @ + result.size]
       ELSE [acc1 EXCEPT !.fs = copied.fs, !.files_copied = @ + 1,
                         !.bytes_transferred = @ + result.size]

RECURSIVE merge_loop(_, _, _, _, _)
merge_loop(acc, results, source, target, options) ==
    IF Len(results) = 0 THEN acc
    ELSE merge_loop(merge_step(acc, Head(results), source, target, options),
                    Tail(results), source, target, options)

\* the body of merge_folders; gate tells whether the source is removed only when
\* the error list is empty.  [ok, fs, result]
merge_folders_body(f, source, target, options, gate) ==
    LET mk == fs_create_dir_all(f, target)
        f1 == IF exists(f, target) THEN f ELSE mk.fs
        comparison == compare_folders(f1, source, target)
        acc == merge_loop([fs |-> f1, files_copied |-> 0, files_skipped |-> 0,
                           files_overwritten |-> 0, bytes_transferred |-> 0,
                           errors |-> <<>>],
                          comparison.results, source, target, options)
        remove == options.delete_source_after /\ (~gate \/ Len(acc.errors) = 0)
        rm == fs_remove_dir_all(acc.fs, source)
        errors == IF remove /\ ~rm.ok THEN Append(acc.errors, <<"remove_source", <<>>>>)
                  ELSE acc.errors
    IN IF ~exists(f, source) THEN [ok |-> FALSE, fs |-> f, result |-> [success |-> FALSE]]
       ELSE IF ~exists(f, target) /\ ~mk.ok
       THEN [ok |-> FALSE, fs |-> f, result |-> [success |-> FALSE]]
       ELSE IF ~comparison.ok
       THEN [ok |-> FALSE, fs |-> f1, result |-> [success |-> FALSE]]
       ELSE [ok |-> TRUE, fs |-> IF remove THEN rm.fs ELSE acc.fs,
             result |-> [success |-> Len(errors) = 0, files_copied |-> acc.files_copied,
                         files_skipped |-> acc.files_skipped,
                         files_overwritten |-> acc.files_overwritten,
                         bytes_transferred |-> acc.bytes_transferred,
                         errors |-> errors]]

\* a variant that removes the source whatever the error list holds
merge_folders_ungated(f, source, target, options) ==
    merge_folders_body(f, source, target, options, FALSE)

\* merge_folders(source_path, target_path, options)
merge_folders(f, source, target, options) ==
    merge_folders_body(f, source, target, options, TRUE)

-----------------------------------------------------------------------------
(* The file watcher (services/watcher.rs) *)

MaxWatches == 2     \* start_watching creates at most this many watches
MaxQueue == 2       \* events waiting in one channel

Watches == 1..MaxWatches

\* FileWatcher::new, with no watch created yet.  watcher, watching_path and
\* stop_sender are the fields of FileWatcher (an Option is a sequence of length 0
\* or 1); watch i has the event channel rx[i], the stop channel stop_rx[i] and
\* the consumer thread at pc[i], which holds the event cur[i] in handle_event
IdleWatch ==
    [watcher |-> <<>>, watching_path |-> <<>>, stop_sender |-> <<>>,
     created |-> 0,
     rx |-> [i \in Watches |-> <<>>],
     stop_rx |-> [i \in Watches |-> 0],
     pc |-> [i \in Watches |-> "unborn"],
     cur |-> [i \in Watches |-> "none"]]

\* FileWatcher::stop_watching: a stop token is sent if there is a sender; the
\* watcher is dropped, and with it the sending side of its event channel
stop_watching(w) ==
    [w EXCEPT !.stop_rx = IF Len(w.stop_sender) = 1
                          THEN [@ EXCEPT ![w.stop_sender[1]] = @ + 1] ELSE @,
              !.stop_sender = <<>>,
              !.watcher = <<>>,
              !.watching_path = <<>>]

\* FileWatcher::start_watching; created_ok tells whether RecommendedWatcher::new
\* and watcher.watch succeed.  [ok, watch]
start_watching(w, path, created_ok) ==
    LET stopped == stop_watching(w)
        i == w.created + 1
    IN IF ~created_ok THEN [ok |-> FALSE, watch |-> stopped]
       ELSE [ok |-> TRUE,
             watch |-> [stopped EXCEPT !.watcher = <<i>>,
                                       !.watching_path = <<path>>,
                                       !.stop_sender = <<i>>,
                                       !.created = i,
                                       !.pc[i] = "check_stop"]]

-----------------------------------------------------------------------------
(* Batch rename (commands/renamer.rs) *)

\* a RenameRule of one of the types "prefix", "suffix" and "sequence"; any other
\* rule type stands for a type apply_rule does not know
RenameRule(rule_type, text) ==
    [rule_type |-> rule_type, prefix |-> text, suffix |-> text,
     start_number |-> 1, digit_count |-> 3]

\* format!("{:0>width$}", n)
RECURSIVE zero_pad(_, _)
zero_pad(str, width) == IF Len(str) >= width THEN str ELSE zero_pad("0" \o str, width)

\* apply_rule(stem, rule, path, sequence): [stem, sequence]
apply_rule(stem, rule, sequence) ==
    CASE rule.rule_type = "prefix" -> [stem |-> rule.prefix \o stem, sequence |-> sequence]
      [] rule.rule_type = "suffix" -> [stem |-> stem \o rule.suffix, sequence |-> sequence]
      [] rule.rule_type = "sequence" ->
           [stem |-> stem \o "_" \o zero_pad(ToString(sequence), rule.digit_count),
            sequence |-> sequence + 1]
      [] OTHER -> [stem |-> stem, sequence |-> sequence]

RECURSIVE apply_rules(_, _, _)
apply_rules(stem, rename_rules, sequence) ==
    IF Len(rename_rules) = 0 THEN [stem |-> stem, sequence |-> sequence]
    ELSE LET r == apply_rule(stem, Head(rename_rules), sequence)
         IN apply_rules(r.stem, Tail(rename_rules), r.sequence)

\* the loop of preview_rename over the paths still to do
RECURSIVE preview_rename_loop(_, _, _, _, _)
preview_rename_loop(previews, new_names, file_paths, rename_rules, sequence_counter) ==
    IF Len(file_paths) = 0 THEN previews
    ELSE LET path == Head(file_paths)
             original_name == file_name(path)
             extension == IF path_extension(original_name) = "" THEN ""
                          ELSE "." \o path_extension(original_name)
             r == apply_rules(file_stem(original_name), rename_rules, sequence_counter)
             new_name == r.stem \o extension
         IN preview_rename_loop(
                Append(previews, [original_path |-> path, original_name |-> original_name,
                                  new_name |-> new_name,
                                  has_conflict |-> new_name \in new_names]),
                new_names \cup {new_name}, Tail(file_paths), rename_rules, r.sequence)

\* preview_rename(file_paths, rules)
preview_rename(file_paths, rename_rules) ==
    LET seq == {i \in 1..Len(rename_rules) : rename_rules[i].rule_type = "sequence"}
        sequence_counter == IF seq = {} THEN 1
                            ELSE rename_rules[CHOOSE i \in seq : \A j \in seq : i <= j].start_number
    IN preview_rename_loop(<<>>, {}, file_paths, rename_rules, sequence_counter)

\* the payload execute_rename records: {"action": "rename", "files": [...]}
BatchRenameDetails(rename_details) == [Details("rename") EXCEPT !.files = rename_details]

\* one preview in the loop of execute_rename; acc is [fs, renamed_count,
\* failed_count, errors, rename_details]
execute_rename_step(acc, preview) ==
    LET original_path == preview.original_path
        new_path == join(parent(original_path), preview.new_name)
        rn == fs_rename(acc.fs, original_path, new_path)
    IN IF preview.has_conflict
       THEN [acc EXCEPT !.failed_count = @ + 1,
                        !.errors = Append(@, <<"conflict", preview.original_name>>)]
       ELSE IF exists(acc.fs, new_path) /\ preview.original_name # preview.new_name
       THEN [acc EXCEPT !.failed_count = @ + 1,
                        !.errors = Append(@, <<"exists", preview.new_name>>)]
       ELSE IF ~rn.ok
       THEN [acc EXCEPT !.failed_count = @ + 1,
                        !.errors = Append(@, <<"rename", preview.original_name>>)]
       ELSE [acc EXCEPT !.fs = rn.fs, !.renamed_count = @ + 1,
                        !.rename_details = Append(@, <<original_path, new_path>>)]

RECURSIVE execute_rename_loop(_, _)
execute_rename_loop(acc, previews) ==
    IF Len(previews) = 0 THEN acc
    ELSE execute_rename_loop(execute_rename_step(acc, Head(previews)), Tail(previews))

\* execute_rename(file_paths, rules): [fs, history, result]; the result of
\* add_history is dropped
execute_rename(f, h, file_paths, rename_rules) ==
    LET acc == execute_rename_loop([fs |-> f, renamed_count |-> 0, failed_count |-> 0,
                                    errors |-> <<>>, rename_details |-> <<>>],
                                   preview_rename(file_paths, rename_rules))
        added == add_history(h, "rename", BatchRenameDetails(acc.rename_details))
    IN [fs |-> acc.fs,
        history |-> IF acc.renamed_count > 0 THEN added.history ELSE h,
        result |-> [success |-> acc.failed_count = 0, renamed_count |-> acc.renamed_count,
                    failed_count |-> acc.failed_count, errors |-> acc.errors]]

-----------------------------------------------------------------------------
(* Undo (commands/history.rs)                                               *)

\* the destination folders of a batch payload: the parent of every new path
folders_to_check(moves) == {parent(moves[i][2]) : i \in 1..Len(moves)}

\* the loop of cleanup_empty_folders, in the order the HashSet yields the folders:
\* remove_dir on the folder, then on its parent, both results ignored
RECURSIVE cleanup_loop(_, _)
cleanup_loop(f, folders) ==
    IF Len(folders) = 0 THEN f
    ELSE LET folder == Head(folders)
             f1 == fs_remove_dir(f, folder).fs
             f2 == IF Len(folder) > 0 THEN fs_remove_dir(f1, parent(folder)).fs ELSE f1
         IN cleanup_loop(f2, Tail(folders))

\* a variant that leaves the destination folders in place
cleanup_empty_folders_keep(f, folders) == f

cleanup_empty_folders(f, folders) == cleanup_loop(f, folders)

\* one pair of a batch undo: acc is [fs, undo_errors]
undo_pair(acc, pair) ==
    LET original_path == pair[1]
        new_path == pair[2]
        mk == fs_create_dir_all(acc.fs, parent(original_path))
        rn == fs_rename(mk.fs, new_path, original_path)
        cp == fs_copy(mk.fs, new_path, original_path)
        rm == fs_remove_file(cp.fs, new_path)
    IN IF ~exists(acc.fs, new_path) THEN acc
       ELSE IF ~mk.ok
       THEN [acc EXCEPT !.undo_errors = Append(@, <<"create_dir_failed", new_path>>)]
       ELSE IF rn.ok THEN [acc EXCEPT !.fs = rn.fs]
       ELSE IF ~cp.ok
       THEN [acc EXCEPT !.fs = mk.fs,
                        !.undo_errors = Append(@, <<"move_failed", new_path>>)]
       ELSE [acc EXCEPT !.fs = rm.fs]

\* a variant that gives up at the first pair that fails
RECURSIVE undo_pairs_until_failure(_, _)
undo_pairs_until_failure(acc, moves) ==
    IF Len(moves) = 0 \/ Len(acc.undo_errors) # 0 THEN acc
    ELSE undo_pairs_until_failure(undo_pair(acc, Head(moves)), Tail(moves))

RECURSIVE undo_pairs(_, _)
undo_pairs(acc, moves) ==
    IF Len(moves) = 0 THEN acc
    ELSE undo_pairs(undo_pair(acc, Head(moves)), Tail(moves))

\* a variant that renames back without creating the original's parent folders
undo_move_no_parent_dir(f, d) ==
    LET rn == fs_rename(f, d.new_path, d.original_path)
    IN IF d.original_path = NoPath THEN [ok |-> FALSE, fs |-> f, err |-> "Missing original_path"]
       ELSE IF d.new_path = NoPath THEN [ok |-> FALSE, fs |-> f, err |-> "Missing new_path"]
       ELSE IF ~exists(f, d.new_path) THEN [ok |-> TRUE, fs |-> f, err |-> ""]
       ELSE IF ~rn.ok THEN [ok |-> FALSE, fs |-> f, err |-> "rename"]
       ELSE [ok |-> TRUE, fs |-> rn.fs, err |-> ""]

\* the arm of a "move" payload: [ok, fs, err]
undo_move(f, d) ==
    LET mk == fs_create_dir_all(f, parent(d.original_path))
        rn == fs_rename(mk.fs, d.new_path, d.original_path)
    IN IF d.original_path = NoPath THEN [ok |-> FALSE, fs |-> f, err |-> "Missing original_path"]
       ELSE IF d.new_path = NoPath THEN [ok |-> FALSE, fs |-> f, err |-> "Missing new_path"]
       ELSE IF ~exists(f, d.new_path) THEN [ok |-> TRUE, fs |-> f, err |-> ""]
       ELSE IF ~mk.ok THEN [ok |-> FALSE, fs |-> f, err |-> "create_dir_all"]
       ELSE IF ~rn.ok THEN [ok |-> FALSE, fs |-> mk.fs, err |-> "rename"]
       ELSE [ok |-> TRUE, fs |-> rn.fs, err |-> ""]

\* the arm of a "copy" payload
undo_copy(f, d) ==
    LET rm == fs_remove_file(f, d.copied_path)
    IN IF d.copied_path = NoPath THEN [ok |-> FALSE, fs |-> f, err |-> "Missing copied_path"]
       ELSE IF ~exists(f, d.copied_path) THEN [ok |-> TRUE, fs |-> f, err |-> ""]
       ELSE IF ~rm.ok THEN [ok |-> FALSE, fs |-> f, err |-> "remove_file"]
       ELSE [ok |-> TRUE, fs |-> rm.fs, err |-> ""]

\* the arm of a "rename" payload
undo_rename(f, d) ==
    LET rn == fs_rename(f, d.new_path, d.original_path)
    IN IF d.original_path = NoPath THEN [ok |-> FALSE, fs |-> f, err |-> "Missing original_path"]
       ELSE IF d.new_path = NoPath THEN [ok |-> FALSE, fs |-> f, err |-> "Missing new_path"]
       ELSE IF ~exists(f, d.new_path) THEN [ok |-> TRUE, fs |-> f, err |-> ""]
       ELSE IF ~rn.ok THEN [ok |-> FALSE, fs |-> f, err |-> "rename"]
       ELSE [ok |-> TRUE, fs |-> rn.fs, err |-> ""]

\* a variant that reports success although pairs failed, so that the entry is marked
undo_batch_marks_anyway(f, d, cleanup_order) ==
    LET acc == undo_pairs([fs |-> f, undo_errors |-> <<>>], d.moves)
        cleaned == cleanup_empty_folders(acc.fs, cleanup_order)
    IN IF ~d.is_array
       THEN [ok |-> FALSE, fs |-> f, err |-> "Unknown action type or invalid undo data",
             undo_errors |-> <<>>]
       ELSE [ok |-> TRUE, fs |-> cleaned, err |-> "", undo_errors |-> acc.undo_errors]

\* the default arm: a batch payload; cleanup_order is the order the folder set is
\* iterated in.  The errors are returned before the entry can be marked.
undo_batch(f, d, cleanup_order) ==
    LET acc == undo_pairs([fs |-> f, undo_errors |-> <<>>], d.moves)
        cleaned == cleanup_empty_folders(acc.fs, cleanup_order)
    IN IF ~d.is_array
       THEN [ok |-> FALSE, fs |-> f, err |-> "Unknown action type or invalid undo data",
             undo_errors |-> <<>>]
       ELSE IF Len(acc.undo_errors) # 0
       THEN [ok |-> FALSE, fs |-> cleaned, err |-> "Some files could not be restored",
             undo_errors |-> acc.undo_errors]
       ELSE [ok |-> TRUE, fs |-> cleaned, err |-> "", undo_errors |-> <<>>]

\* the match on the payload's action tag: [ok, fs, err, undo_errors]
undo_dispatch(f, d, cleanup_order) ==
    LET single(r) == [ok |-> r.ok, fs |-> r.fs, err |-> r.err, undo_errors |-> <<>>]
    IN CASE d.action = "move" -> single(undo_move(f, d))
         [] d.action = "copy" -> single(undo_copy(f, d))
         [] d.action = "rename" -> single(undo_rename(f, d))
         [] d.action = "delete" ->
              IF ~d.to_trash
              THEN [ok |-> FALSE, fs |-> f, err |-> "Cannot undo permanent delete",
                    undo_errors |-> <<>>]
              ELSE [ok |-> FALSE, fs |-> f, err |-> "Trash undo not implemented",
                    undo_errors |-> <<>>]
         [] OTHER -> undo_batch(f, d, cleanup_order)

\* a variant that does not look at is_undone
undo_operation_no_undone_check(f, h, id, cleanup_order) ==
    LET r == undo_dispatch(f, h[id].details, cleanup_order)
        marked == mark_history_undone(h, id)
    IN IF ~has_history_item(h, id)
       THEN [ok |-> FALSE, fs |-> f, history |-> h, err |-> "Query returned no rows",
             undo_errors |-> <<>>]
       ELSE IF ~r.ok
       THEN [ok |-> FALSE, fs |-> r.fs, history |-> h, err |-> r.err,
             undo_errors |-> r.undo_errors]
       ELSE IF ~marked.ok
       THEN [ok |-> FALSE, fs |-> r.fs, history |-> h, err |-> "mark_history_undone",
             undo_errors |-> <<>>]
       ELSE [ok |-> TRUE, fs |-> r.fs, history |-> marked.history, err |-> "",
             undo_errors |-> <<>>]

\* undo_operation(id): [ok, fs, history, err, undo_errors]
undo_operation(f, h, id, cleanup_order) ==
    LET r == undo_dispatch(f, h[id].details, cleanup_order)
        marked == mark_history_undone(h, id)
    IN IF ~has_history_item(h, id)
       THEN [ok |-> FALSE, fs |-> f, history |-> h, err |-> "Query returned no rows",
             undo_errors |-> <<>>]
       ELSE IF h[id].is_undone
       THEN [ok |-> FALSE, fs |-> f, history |-> h,
             err |-> "Operation has already been undone", undo_errors |-> <<>>]
       ELSE IF ~r.ok
       THEN [ok |-> FALSE, fs |-> r.fs, history |-> h, err |-> r.err,
             undo_errors |-> r.undo_errors]
       ELSE IF ~marked.ok
       THEN [ok |-> FALSE, fs |-> r.fs, history |-> h, err |-> "mark_history_undone",
             undo_errors |-> <<>>]
       ELSE [ok |-> TRUE, fs |-> r.fs, history |-> marked.history, err |-> "",
             undo_errors |-> <<>>]

-----------------------------------------------------------------------------
(* The scenario: a source folder R with two files, a destination folder D   *)
(* that custom rules move into, and a small catalogue of custom rules.      *)

R == <<"R">>
D == <<"D">>
FileA == join(R, "a.jpg")
FileB == join(R, "b.xyz")

MetaA == [data |-> "AA", created_at |-> "2023-12-31 09:00:00",
          modified_at |-> "2024-01-15 10:00:00"]
MetaB == [data |-> "B", created_at |-> "2024-02-01 09:00:00",
          modified_at |-> "2024-02-20 10:00:00"]

BaseFs == [files |-> (FileA :> MetaA) @@ (FileB :> MetaB),
           dirs |-> {Root, R, D},
           trash |-> {}]

Cond(field, operator, value) == [field |-> field, operator |-> operator, value |-> value]

\* matches a.jpg only
RuleJpg == [id |-> 1, name |-> "jpg", priority |-> 5, enabled |-> TRUE,
            conditions |-> <<Cond("extension", "equals", ".JPG")>>,
            condition_logic |-> "AND", action_type |-> "move",
            action_destination |-> D, create_date_subfolder |-> FALSE]
\* matches a.jpg (by name) and b.xyz (by size)
RuleAny == [id |-> 2, name |-> "a or small", priority |-> 1, enabled |-> TRUE,
            conditions |-> <<Cond("name", "startsWith", "A"), Cond("size", "lessThan", "2")>>,
            condition_logic |-> "OR", action_type |-> "move",
            action_destination |-> join(D, "misc"), create_date_subfolder |-> TRUE]
\* no conditions: never matches, whatever its priority
RuleEmpty == [id |-> 3, name |-> "empty", priority |-> 9, enabled |-> TRUE,
              conditions |-> <<>>,
              condition_logic |-> "AND", action_type |-> "move",
              action_destination |-> join(D, "none"), create_date_subfolder |-> FALSE]

\* matches a.jpg, with the priority of RuleJpg
RuleTwin == [id |-> 4, name |-> "twin", priority |-> 5, enabled |-> TRUE,
             conditions |-> <<Cond("name", "endsWith", ".jpg")>>,
             condition_logic |-> "AND", action_type |-> "move",
             action_destination |-> join(D, "twin"), create_date_subfolder |-> FALSE]

\* conditions that cannot be evaluated: a pattern that does not compile, a value
\* that is no number, a field that is no number
RuleBroken == [id |-> 5, name |-> "broken", priority |-> 9, enabled |-> TRUE,
               conditions |-> <<Cond("name", "matches", "(jpg"),
                                Cond("size", "greaterThan", "abc"),
                                Cond("name", "lessThan", "5")>>,
               condition_logic |-> "OR", action_type |-> "move",
               action_destination |-> join(D, "broken"), create_date_subfolder |-> FALSE]

\* one such condition next to one that is true of a.jpg
RuleHalf == [id |-> 6, name |-> "half", priority |-> 7, enabled |-> TRUE,
             conditions |-> <<Cond("name", "matches", "[a-"),
                              Cond("name", "matches", "^a.jpg$")>>,
             condition_logic |-> "OR", action_type |-> "move",
             action_destination |-> join(D, "half"), create_date_subfolder |-> FALSE]

RuleTables == { <<>>, <<RuleJpg>>, <<RuleAny, RuleJpg>>, <<RuleEmpty, RuleAny>>,
                <<RuleJpg, RuleTwin>>, <<RuleBroken, RuleJpg>>, <<RuleHalf>> }

-----------------------------------------------------------------------------
(* Commands as actions.  last records the command, its inputs and what it   *)
(* returned.                                                                *)

Init ==
    /\ watch = IdleWatch
    /\ fs = BaseFs
    /\ ro = {}
    /\ xdev \in {{}, {D}}
    /\ db_locked = FALSE
    /\ history = <<>>
    /\ rules \in RuleTables
    /\ default_rules = <<>>
    /\ last = [op |-> "init"]

\* save_rule on an existing row (an UPDATE): here, switching a rule on or off
SaveRule ==
    \E i \in 1..Len(rules) :
        /\ rules' = IF db_locked THEN rules ELSE [rules EXCEPT ![i].enabled = ~@]
        /\ last' = [op |-> "save_rule", id |-> rules[i].id, ok |-> ~db_locked]
        /\ UNCHANGED <<watch, fs, ro, xdev, db_locked, history, default_rules>>

\* save_default_rule: UPDATE ... WHERE id; here, switching Images or Others on or off
SaveDefaultRule ==
    \E i \in 1..Len(default_rules) :
        /\ default_rules[i].category \in {"images", "others"}
        /\ default_rules' = IF db_locked THEN default_rules
                            ELSE [default_rules EXCEPT ![i].enabled = ~@]
        /\ last' = [op |-> "save_default_rule", id |-> default_rules[i].id,
                    ok |-> ~db_locked]
        /\ UNCHANGED <<watch, fs, ro, xdev, db_locked, history, rules>>

\* preview_unified: the same code as preview_unified_internal, behind the command
preview_unified(f, custom_rules, default_table, source, entries) ==
    preview_unified_internal(f, custom_rules, default_table, source, entries)

PreviewUnified ==
    \E source \in {R}, custom_rules \in get_rules(rules) :
      \E entries \in Perms(Children(fs, source)) :
        \E p \in {preview_unified(fs, custom_rules, default_rules, source, entries)} :
           /\ default_rules' = p.table
           /\ last' = [op |-> "preview_unified", source |-> source, ok |-> p.ok,
                       previews |-> p.previews]
           /\ UNCHANGED <<watch, fs, ro, xdev, db_locked, history, rules>>

PreviewRules ==
    \E source \in {R}, all_rules \in get_rules(rules) :
      \E entries \in Perms(Children(fs, source)) :
        \E m \in {preview_rules(fs, all_rules, source, entries)} :
           /\ last' = [op |-> "preview_rules", source |-> source, ok |-> m.ok,
                       matches |-> m.matches]
           /\ UNCHANGED <<watch, fs, ro, xdev, db_locked, history, rules, default_rules>>

\* what a command that returned Err leaves behind
Failed == [fs |-> fs, history |-> history, result |-> [success |-> FALSE]]

\* execute_unified: the plan is computed first, and its Err is the command's Err
ExecuteUnified ==
    /\ Len(history) < MaxHistory
    /\ \E source \in {R}, excluded \in {{}, {join(R, "Others")}},
          custom_rules \in get_rules_internal(rules) :
      \E entries \in Perms(Children(fs, source)) :
        \E p \in {preview_unified_internal(fs, custom_rules, default_rules, source, entries)} :
        \E x \in {IF p.ok THEN execute_unified(fs, history, p.previews, source, excluded)
                   ELSE Failed} :
           /\ default_rules' = p.table
           /\ fs' = x.fs
           /\ history' = x.history
           /\ last' = [op |-> "execute_unified", source |-> source, excluded |-> excluded,
                       ok |-> p.ok, previews |-> p.previews, result |-> x.result]
           /\ UNCHANGED <<watch, ro, xdev, db_locked, rules>>

\* execute_rules: no enabled rule returns the empty result at once; otherwise the
\* matches are computed and executed
ExecuteRules ==
    /\ Len(history) < MaxHistory
    /\ \E source \in {R}, all_rules \in get_rules_internal(rules) :
      \E entries \in Perms(Children(fs, source)) :
        \E enabled_rules \in {SelectSeq(all_rules, Enabled)} :
        \E m \in {IF Len(enabled_rules) = 0 THEN [ok |-> TRUE, matches |-> <<>>]
                   ELSE compute_matches(fs, source, enabled_rules, entries)} :
        \E x \in {IF m.ok THEN execute_rules(fs, history, m.matches) ELSE Failed} :
           /\ fs' = x.fs
           /\ history' = x.history
           /\ last' = [op |-> "execute_rules", source |-> source, ok |-> m.ok,
                       matches |-> m.matches, result |-> x.result]
           /\ UNCHANGED <<watch, ro, xdev, db_locked, rules, default_rules>>

UndoOperation ==
    \E id \in 1..MaxHistory :
        \E cleanup_order \in
             Perms(IF has_history_item(history, id)
                   THEN folders_to_check(history[id].details.moves) ELSE {}) :
            \E u \in {undo_operation(fs, history, id, cleanup_order)} :
               /\ fs' = u.fs
               /\ history' = u.history
               /\ last' = [op |-> "undo_operation", id |-> id, ok |-> u.ok, err |-> u.err,
                           undo_errors |-> u.undo_errors]
               /\ UNCHANGED <<watch, ro, xdev, db_locked, rules, default_rules>>

\* the user changes a directory's permissions outside the application
ExternalChmod ==
    \E d \in {R} :
        /\ ro' = IF d \in ro THEN ro \ {d} ELSE ro \cup {d}
        /\ last' = [op |-> "external"]
        /\ UNCHANGED <<watch, fs, xdev, db_locked, history, rules, default_rules>>

\* another connection takes or releases the database's write lock
ExternalLock ==
    /\ db_locked' = ~db_locked
    /\ last' = [op |-> "external"]
    /\ UNCHANGED <<watch, fs, ro, xdev, history, rules, default_rules>>

Next ==
    \/ ExecuteUnified
    \/ UndoOperation
    \/ ExternalChmod
    \/ ExternalLock

Spec == Init /\ [][Next]_vars

\* the rule tables and the plan: no file is touched
NextPreview ==
    \/ SaveRule
    \/ SaveDefaultRule
    \/ PreviewUnified
    \/ PreviewRules
    \/ ExternalLock

SpecPreview == Init /\ [][NextPreview]_vars

\* rule-driven execution and its undo
NextRules ==
    \/ ExecuteRules
    \/ UndoOperation
    \/ ExternalChmod
    \/ ExternalLock

SpecRules == Init /\ [][NextRules]_vars

-----------------------------------------------------------------------------
(* Direct commands and their undo *)

\* a file of the same name already waits in the destination folder
MetaC == [data |-> "CCC", created_at |-> "2022-05-05 09:00:00",
          modified_at |-> "2022-06-06 10:00:00"]

OpsFs == [BaseFs EXCEPT !.files = @ @@ (join(D, "a.jpg") :> MetaC)]

InitOps ==
    /\ watch = IdleWatch
    /\ fs = OpsFs
    /\ ro = {}
    /\ xdev = {}
    /\ db_locked = FALSE
    /\ history = <<>>
    /\ rules = <<>>
    /\ default_rules = <<>>
    /\ last = [op |-> "init"]

MoveFile ==
    /\ Len(history) < MaxHistory
    /\ \E source \in {FileA, FileB}, dest \in {D},
          overwrite \in {"overwrite", "rename", "skip"} :
        \E m \in {move_file(fs, history, source, dest, overwrite)} :
           /\ fs' = m.fs
           /\ history' = m.history
           /\ last' = [op |-> "move_file", source |-> source, dest |-> dest,
                       overwrite |-> overwrite, ok |-> m.ok, value |-> m.value]
           /\ UNCHANGED <<watch, ro, xdev, db_locked, rules, default_rules>>

RenameFile ==
    /\ Len(history) < MaxHistory
    /\ \E path \in {FileA}, new_name \in {"a.jpg", "b.xyz", "c.jpg"} :
        \E m \in {rename_file(fs, history, path, new_name)} :
           /\ fs' = m.fs
           /\ history' = m.history
           /\ last' = [op |-> "rename_file", path |-> path, new_name |-> new_name,
                       ok |-> m.ok, value |-> m.value]
           /\ UNCHANGED <<watch, ro, xdev, db_locked, rules, default_rules>>

\* the unified organization of R with the seeded default rules and nothing excluded
OrganizeDefaults ==
    /\ Len(history) < MaxHistory
    /\ \E entries \in Perms(Children(fs, R)) :
        \E p \in {preview_unified_internal(fs, rules, default_rules, R, entries)} :
        \E x \in {IF p.ok THEN execute_unified(fs, history, p.previews, R, {})
                   ELSE Failed} :
           /\ default_rules' = p.table
           /\ fs' = x.fs
           /\ history' = x.history
           /\ last' = [op |-> "execute_unified", source |-> R, excluded |-> {},
                       ok |-> p.ok, previews |-> p.previews, result |-> x.result]
           /\ UNCHANGED <<watch, ro, xdev, db_locked, rules>>

\* the user removes an empty folder outside the application
ExternalRemoveDir ==
    \E d \in {R} :
      \E rm \in {fs_remove_dir(fs, d)} :
        /\ rm.ok
        /\ fs' = rm.fs
        /\ last' = [op |-> "external"]
        /\ UNCHANGED <<watch, ro, xdev, db_locked, history, rules, default_rules>>

NextOps ==
    \/ MoveFile
    \/ RenameFile
    \/ OrganizeDefaults
    \/ UndoOperation
    \/ ExternalRemoveDir
    \/ ExternalChmod
    \/ ExternalLock

SpecOps == InitOps /\ [][NextOps]_vars

-----------------------------------------------------------------------------
(* The direct file commands, each with its history record *)

CopyFile ==
    /\ Len(history) < MaxHistory
    /\ Cardinality(DOMAIN fs.files) <= MaxFiles
    /\ \E source \in {FileA}, dest \in {D},
          overwrite \in {"overwrite", "rename", "skip"} :
        \E m \in {copy_file(fs, history, source, dest, overwrite)} :
           /\ fs' = m.fs
           /\ history' = m.history
           /\ last' = [op |-> "copy_file", source |-> source, dest |-> dest,
                       overwrite |-> overwrite, ok |-> m.ok, value |-> m.value]
           /\ UNCHANGED <<watch, ro, xdev, db_locked, rules, default_rules>>

DeleteFile ==
    /\ Len(history) < MaxHistory
    /\ \E path \in {FileB, join(R, "new")}, to_trash \in BOOLEAN :
        \E m \in {delete_file(fs, history, path, to_trash)} :
           /\ fs' = m.fs
           /\ history' = m.history
           /\ last' = [op |-> "delete_file", path |-> path, to_trash |-> to_trash,
                       ok |-> m.ok, value |-> m.value]
           /\ UNCHANGED <<watch, ro, xdev, db_locked, rules, default_rules>>

CreateFolder ==
    \E path \in {D, join(R, "new")} :
        \E m \in {create_folder(fs, path)} :
           /\ fs' = m.fs
           /\ last' = [op |-> "create_folder", path |-> path, ok |-> m.ok,
                       value |-> m.value]
           /\ UNCHANGED <<watch, ro, xdev, db_locked, history, rules, default_rules>>

NextFiles ==
    \/ MoveFile
    \/ CopyFile
    \/ DeleteFile
    \/ RenameFile
    \/ CreateFolder
    \/ ExternalLock

SpecFiles == InitOps /\ [][NextFiles]_vars

-----------------------------------------------------------------------------
(* Rule evaluation on its own: evaluate_rule applied to rules built from a  *)
(* catalogue of conditions, on the inventory records of the two files       *)

ConditionCatalogue ==
    { Cond("extension", "equals", ".JPG"),
      Cond("name", "startsWith", "A"),
      Cond("size", "lessThan", "2"),
      Cond("size", "greaterThan", "abc"),
      Cond("name", "matches", "^b.xyz$"),
      Cond("name", "matches", "(jpg") }

RECURSIVE SeqsUpTo(_, _)
SeqsUpTo(S, n) ==
    IF n = 0 THEN {<<>>}
    ELSE LET shorter == SeqsUpTo(S, n - 1)
         IN shorter \cup {Append(q, x) : q \in {t \in shorter : Len(t) = n - 1}, x \in S}

RuleOf(conditions, condition_logic) ==
    [id |-> 7, name |-> "probe", priority |-> 0, enabled |-> TRUE,
     conditions |-> conditions, condition_logic |-> condition_logic,
     action_type |-> "move", action_destination |-> D, create_date_subfolder |-> FALSE]

\* the call about to be made: a file's inventory record and a rule
InitEval ==
    /\ watch = IdleWatch
    /\ fs = BaseFs
    /\ ro = {}
    /\ xdev = {}
    /\ db_locked = FALSE
    /\ history = <<>>
    /\ rules = <<>>
    /\ default_rules = <<>>
    /\ \E path \in {FileA, FileB}, condition_logic \in {"AND", "OR"},
          conditions \in SeqsUpTo(ConditionCatalogue, MaxConditions) :
           last = [op |-> "call_evaluate_rule", file |-> FileInfo(BaseFs, path),
                   rule |-> RuleOf(conditions, condition_logic)]

EvaluateRule ==
    /\ last.op = "call_evaluate_rule"
    /\ last' = [op |-> "evaluate_rule", file |-> last.file, rule |-> last.rule,
                result |-> evaluate_rule(last.file, last.rule)]
    /\ UNCHANGED <<watch, fs, ro, xdev, db_locked, history, rules, default_rules>>

NextEval == EvaluateRule

SpecEval == InitEval /\ [][NextEval]_vars

\* the conditions of the evaluated rule that are true of the evaluated file
TrueConditions ==
    {i \in 1..Len(last.rule.conditions) :
        evaluate_condition(last.file, last.rule.conditions[i])}

\* C10: a rule with no conditions matches no file under AND and under OR; a rule
\* with conditions matches under AND exactly when every condition is true of the
\* file, and under OR exactly when at least one is.
C10_EmptyMatchesNothing ==
    last.op = "evaluate_rule" =>
        LET n == Len(last.rule.conditions)
        IN /\ n = 0 => ~last.result
           /\ (n > 0 /\ last.rule.condition_logic = "AND") =>
                  (last.result <=> TrueConditions = 1..n)
           /\ (n > 0 /\ last.rule.condition_logic = "OR") =>
                  (last.result <=> TrueConditions # {})

\* an AND rule without conditions was evaluated, and did not match
C10_Witness ==
    /\ last.op = "evaluate_rule"
    /\ last.rule.conditions = <<>>
    /\ last.rule.condition_logic = "AND"
    /\ ~last.result

-----------------------------------------------------------------------------
(* Undo of single entries *)

\* this step is undo_operation(id) on an existing entry
UndoStepOf(id) ==
    /\ last'.op = "undo_operation"
    /\ last'.id = id
    /\ has_history_item(history, id)

\* C1: undo_operation on an entry that is already undone fails with the error
\* 'already undone' and changes neither the file system nor the history, whatever
\* the operation type of the entry.
C1_AlreadyUndoneRefused ==
    [][\A id \in 1..MaxHistory :
          (UndoStepOf(id) /\ history[id].is_undone) =>
              /\ ~last'.ok
              /\ last'.err = "Operation has already been undone"
              /\ fs' = fs
              /\ history' = history]_vars

\* an undo was refused as already undone on a batch entry, next to an undone entry
\* of another operation type
C1_Witness ==
    /\ last.op = "undo_operation"
    /\ ~last.ok
    /\ last.err = "Operation has already been undone"
    /\ history[last.id].operation_type = "organize"
    /\ history[last.id].is_undone
    /\ \E j \in 1..Len(history) :
          history[j].is_undone /\ history[j].operation_type \in {"move", "rename"}

\* C2: undoing a not yet undone "move" entry whose new path exists puts the file
\* back at the original path, with the original's parent folder in place, and only
\* a successful move back marks the entry undone: after a success the file is at the
\* original path and nothing is at the moved-to path; after a failure the entry is
\* not marked, and the file is still at the moved-to path unless the failure was the
\* marking itself.  With all folders and the database writable the undo succeeds.
C2_MoveUndoRestores ==
    [][\A id \in 1..MaxHistory :
          (/\ UndoStepOf(id)
           /\ ~history[id].is_undone
           /\ history[id].details.action = "move"
           /\ exists(fs, history[id].details.new_path)) =>
              LET original == history[id].details.original_path
                  new == history[id].details.new_path
              IN /\ last'.ok =>
                       /\ is_file(fs', original)
                       /\ fs'.files[original] = fs.files[new]
                       /\ ~exists(fs', new)
                       /\ is_dir(fs', parent(original))
                       /\ history'[id].is_undone
                 /\ ~last'.ok =>
                       /\ ~history'[id].is_undone
                       /\ ~db_locked => is_file(fs', new)
                 /\ (ro = {} /\ ~db_locked /\ ~is_dir(fs, original)) => last'.ok]_vars

\* a "move" entry was undone: its file is back at the original path and the moved-to
\* path is free
C2_Witness ==
    /\ last.op = "undo_operation"
    /\ last.ok
    /\ history[last.id].details.action = "move"
    /\ history[last.id].is_undone
    /\ is_file(fs, history[last.id].details.original_path)
    /\ ~exists(fs, history[last.id].details.new_path)

-----------------------------------------------------------------------------
(* Moves whose direct rename fails *)

\* permissions or a device boundary keep fs::rename from moving src to dst
RenameBlocked(src, dst) ==
    \/ ~Writable(parent(src))
    \/ ~Writable(parent(dst))
    \/ Device(parent(src)) # Device(parent(dst))

\* the payload of the entry a step has appended to the history, else no pairs
RecordedPairs ==
    IF Len(history') = Len(history) + 1
    THEN Range(history'[Len(history')].details.moves) ELSE {}

\* C3: in a rule-driven move whose rename fails and whose copy-then-delete fallback
\* succeeds (the file has left the source and is at the destination), the move is
\* reported as successful: it is counted as executed, its (original, new) pair is in
\* the batch's history payload, and no error is reported for the file.
C3_FallbackMoveReported ==
    [][(last'.op = "execute_rules" /\ last'.ok) =>
          \A i \in 1..Len(last'.matches) :
              LET m == last'.matches[i]
                  src == m.file.path
                  final == action_final_path(m.rule, m.file)
              IN (/\ m.rule.action_type = "move"
                  /\ RenameBlocked(src, final)
                  /\ is_file(fs', final)
                  /\ fs'.files[final].data = fs.files[src].data
                  /\ ~exists(fs', src)) =>
                     /\ last'.result.executed_count >= 1
                     /\ <<src, final>> \in RecordedPairs
                     /\ \A k \in 1..Len(last'.result.errors) :
                            last'.result.errors[k][1] # m.file.name]_vars

\* C4: when the direct rename of a planned move fails in a unified organization,
\* either the file is at the destination, not at the source, and recorded as moved,
\* or the source is untouched, nothing is at the destination, the move is not
\* recorded and an error is reported for the file.
C4_FallbackAllOrNothing ==
    [][(last'.op = "execute_unified" /\ last'.ok) =>
          \A i \in 1..Len(last'.previews) :
              LET preview == last'.previews[i]
                  src == preview.file.path
                  dest_folder == unified_dest_folder(preview, last'.source)
                  dst == join(dest_folder, preview.file.name)
              IN (/\ preview.destination \notin last'.excluded
                  /\ is_dir(fs', dest_folder)
                  /\ RenameBlocked(src, dst)) =>
                     \/ /\ is_file(fs', dst)
                        /\ ~exists(fs', src)
                        /\ <<src, dst>> \in RecordedPairs
                     \/ /\ is_file(fs', src)
                        /\ fs'.files[src] = fs.files[src]
                        /\ ~exists(fs', dst)
                        /\ <<src, dst>> \notin RecordedPairs
                        /\ \E k \in 1..Len(last'.result.errors) :
                              last'.result.errors[k][2] = preview.file.name]_vars

-----------------------------------------------------------------------------
(* The plan *)

\* the enabled custom rules of the table that match a file
MatchingCustomRules(file) ==
    {r \in Range(rules) : r.enabled /\ evaluate_rule(file, r)}

\* the enabled default rules of the table for a file's category
MatchingDefaultRules(file) ==
    {d \in Range(default_rules) : d.enabled /\ d.category = to_lowercase(file.category)}

\* the entries of the last unified plan for the file at path
PlanEntriesOf(path) ==
    {i \in 1..Len(last.previews) : last.previews[i].file.path = path}

\* C5: in the unified plan, an eligible file that an enabled custom rule matches has
\* that custom rule's verdict as its entry, also when an enabled default rule exists
\* for its category; a file no enabled custom rule matches has the enabled default
\* rule of its category as its entry; a file with neither has no entry.
C5_CustomBeatsDefault ==
    (last.op = "preview_unified" /\ last.ok) =>
        \A path \in {q \in Children(fs, last.source) : Eligible(fs, q)} :
            LET file == FileInfo(fs, path)
                customs == MatchingCustomRules(file)
                defaults == MatchingDefaultRules(file)
                entries == PlanEntriesOf(path)
            IN /\ customs # {} =>
                     /\ Cardinality(entries) = 1
                     /\ \A i \in entries :
                           /\ last.previews[i].match_type = "custom"
                           /\ last.previews[i].rule[1] \in customs
                           /\ last.previews[i].default_rule = <<>>
                           /\ last.previews[i].destination =
                                  last.previews[i].rule[1].action_destination
               /\ (customs = {} /\ defaults # {}) =>
                     /\ Cardinality(entries) = 1
                     /\ \A i \in entries :
                           /\ last.previews[i].match_type = "default"
                           /\ last.previews[i].default_rule[1] \in defaults
                           /\ last.previews[i].rule = <<>>
               /\ (customs = {} /\ defaults = {}) => entries = {}

\* a plan in which a.jpg follows a custom rule although the Images default rule is
\* enabled, and b.xyz, with no custom match and the Others default rule disabled, has
\* no entry
C5_Witness ==
    /\ last.op = "preview_unified"
    /\ last.ok
    /\ \E i \in PlanEntriesOf(FileA) :
          /\ last.previews[i].match_type = "custom"
          /\ MatchingDefaultRules(last.previews[i].file) # {}
    /\ is_file(fs, FileB)
    /\ PlanEntriesOf(FileB) = {}

\* C6: the custom rule recorded for a file, in the unified plan and in the matches
\* of the rule preview, is an enabled rule that matches the file, and no enabled
\* rule that matches the file has a strictly higher priority; no file appears twice.
C6_HighestPriorityFirstMatch ==
    /\ (last.op = "preview_unified" /\ last.ok) =>
          /\ \A i \in 1..Len(last.previews) :
                last.previews[i].match_type = "custom" =>
                    /\ last.previews[i].rule[1] \in MatchingCustomRules(last.previews[i].file)
                    /\ \A q \in MatchingCustomRules(last.previews[i].file) :
                          q.priority <= last.previews[i].rule[1].priority
          /\ \A i, j \in 1..Len(last.previews) :
                i # j => last.previews[i].file.path # last.previews[j].file.path
    /\ (last.op = "preview_rules" /\ last.ok) =>
          /\ \A i \in 1..Len(last.matches) :
                /\ last.matches[i].rule \in MatchingCustomRules(last.matches[i].file)
                /\ \A q \in MatchingCustomRules(last.matches[i].file) :
                      q.priority <= last.matches[i].rule.priority
          /\ \A i, j \in 1..Len(last.matches) :
                i # j => last.matches[i].file.path # last.matches[j].file.path

\* a plan records for a file the rule of higher priority while an enabled rule of
\* lower priority matches the file too
C6_Witness ==
    /\ last.op = "preview_unified"
    /\ last.ok
    /\ \E i \in 1..Len(last.previews) :
          /\ last.previews[i].match_type = "custom"
          /\ \E q \in MatchingCustomRules(last.previews[i].file) :
                q.priority < last.previews[i].rule[1].priority

-----------------------------------------------------------------------------
(* The history entry of a unified organization *)

\* where execute_unified sends the file of a plan entry
PlannedPath(preview) ==
    join(unified_dest_folder(preview, last'.source), preview.file.name)

\* the step has brought the file of a plan entry to its destination
Arrived(preview) ==
    /\ preview.destination \notin last'.excluded
    /\ is_file(fs', PlannedPath(preview))
    /\ fs'.files[PlannedPath(preview)].data = fs.files[preview.file.path].data
    /\ \/ ~exists(fs', preview.file.path)
       \/ fs'.files[PlannedPath(preview)].modified_at = CopyStamp

\* the (original, new) pairs of the plan entries whose file arrived, in plan order
ArrivedPairs ==
    LET arrived == SelectSeq(last'.previews, Arrived)
    IN [i \in 1..Len(arrived) |-> <<arrived[i].file.path, PlannedPath(arrived[i])>>]

-----------------------------------------------------------------------------
(* End to end: organize the two files by the default rules, then undo *)

ImageA == join(join(R, "Images"), "a.jpg")
OtherB == join(join(R, "Others"), "b.xyz")

\* the source folder after the organization
OrganizedFs ==
    [BaseFs EXCEPT !.files = (ImageA :> MetaA) @@ (OtherB :> MetaB),
                   !.dirs = @ \cup {join(R, "Images"), join(R, "Others")}]

\* the two pairs, in either processing order
OrganizedPairs == {<<FileA, ImageA>>, <<FileB, OtherB>>}

\* C8: with a.jpg and b.xyz in the source folder, the default rules enabled and no
\* custom rule, execute_unified moves a.jpg to Images/a.jpg and b.xyz to
\* Others/b.xyz, returns files_moved = 2 and files_skipped = 0 and records one
\* history entry with the two pairs; undoing that entry puts both files back in the
\* source root, removes the Images/ and Others/ folders and marks the entry undone.
C8_OrganizeThenUndo ==
    [][/\ (/\ last'.op = "execute_unified"
            /\ fs = BaseFs /\ rules = <<>> /\ last'.excluded = {}
            /\ ro = {} /\ ~db_locked) =>
               /\ last'.ok
               /\ fs' = OrganizedFs
               /\ last'.result.success
               /\ last'.result.files_moved = 2
               /\ last'.result.files_skipped = 0
               /\ last'.result.errors = <<>>
               /\ Len(history') = Len(history) + 1
               /\ SubSeq(history', 1, Len(history)) = history
               /\ last'.result.history_id = Len(history')
               /\ history'[Len(history')].operation_type = "organize"
               /\ ~history'[Len(history')].is_undone
               /\ Len(history'[Len(history')].details.moves) = 2
               /\ Range(history'[Len(history')].details.moves) = OrganizedPairs
       /\ \A id \in 1..MaxHistory :
             (/\ UndoStepOf(id)
              /\ fs = OrganizedFs
              /\ history[id].operation_type = "organize"
              /\ ~history[id].is_undone
              /\ Len(history[id].details.moves) = 2
              /\ Range(history[id].details.moves) = OrganizedPairs
              /\ ro = {} /\ ~db_locked) =>
                 /\ last'.ok
                 /\ fs' = BaseFs
                 /\ history' = [history EXCEPT ![id].is_undone = TRUE]]_vars

\* the entry of the two pairs has been undone: both files are back in the source
\* root and the two folders are gone
C8_Witness ==
    /\ last.op = "undo_operation"
    /\ last.ok
    /\ history[last.id].operation_type = "organize"
    /\ history[last.id].is_undone
    /\ Range(history[last.id].details.moves) = OrganizedPairs
    /\ fs = BaseFs
    /\ ~is_dir(fs, join(R, "Images"))
    /\ ~is_dir(fs, join(R, "Others"))

-----------------------------------------------------------------------------
(* Batch undo with pairs that cannot be restored *)

\* this step is undo_operation(id) on a batch entry that is not yet undone
BatchUndoStepOf(id) ==
    /\ UndoStepOf(id)
    /\ ~history[id].is_undone
    /\ history[id].details.is_array

\* the pairs of entry id whose moved file is present before the undo
PresentPairs(id) ==
    {i \in 1..Len(history[id].details.moves) : exists(fs, history[id].details.moves[i][2])}

\* C9 as claimed: a batch undo in which at least one pair could not be restored
\* still marks the history entry undone once every pair has been attempted, and
\* returns the per-pair error list.
C9_FailedBatchStillMarked ==
    [][\A id \in 1..MaxHistory :
          (BatchUndoStepOf(id) /\ last'.undo_errors # <<>>) =>
              history'[id].is_undone]_vars

\* C9 as amended: a batch undo in which at least one pair could not be restored
\* attempts every pair, returns the per-pair error list as an error and leaves the
\* entry not undone; the entry is marked only when every pair has been attempted and
\* none failed, so that every moved file that was present is back at its original
\* path.
C9_FailedBatchNotMarked ==
    [][\A id \in 1..MaxHistory :
          BatchUndoStepOf(id) =>
              LET moves == history[id].details.moves
                  attempts == undo_pairs([fs |-> fs, undo_errors |-> <<>>], moves)
              IN /\ last'.undo_errors = attempts.undo_errors
                 /\ Len(last'.undo_errors) <= Cardinality(PresentPairs(id))
                 /\ last'.undo_errors # <<>> =>
                       /\ ~last'.ok
                       /\ last'.err = "Some files could not be restored"
                       /\ history' = history
                 /\ history'[id].is_undone =>
                       /\ last'.ok
                       /\ last'.undo_errors = <<>>
                       /\ \A i \in PresentPairs(id) :
                             /\ is_file(fs', moves[i][1])
                             /\ ~exists(fs', moves[i][2])
                 /\ (last'.undo_errors = <<>> /\ ~db_locked) => history'[id].is_undone]_vars

\* a batch undo went through both pairs of its entry, neither file could be put
\* back, and the entry is still not undone
C9_Witness ==
    /\ last.op = "undo_operation"
    /\ ~last.ok
    /\ Len(last.undo_errors) = 2
    /\ history[last.id].details.is_array
    /\ Len(history[last.id].details.moves) = 2
    /\ ~history[last.id].is_undone

-----------------------------------------------------------------------------
(* Conditions that cannot be evaluated *)

\* the text a condition compares: the field of the file's record
FieldText(file, condition) ==
    CASE condition.field = "name" -> file.name
      [] condition.field = "extension" -> file.extension
      [] condition.field = "size" -> ToString(file.size)
      [] condition.field = "createdDate" -> file.created_at
      [] condition.field = "modifiedDate" -> file.modified_at
      [] OTHER -> ""

\* a "matches" condition whose pattern does not compile, or a greaterThan / lessThan
\* condition one side of which is no unsigned integer
Unevaluable(file, condition) ==
    \/ condition.operator = "matches" /\ ~regex_new_ok(condition.value)
    \/ /\ condition.operator \in {"greaterThan", "lessThan"}
       /\ \/ parse_u64(FieldText(file, condition)) = -1
          \/ parse_u64(condition.value) = -1

\* the enabled rules that match the file when each such condition counts as false
SoundMatches(file) ==
    {r \in Range(rules) :
        /\ r.enabled
        /\ Len(r.conditions) > 0
        /\ LET holds(i) == /\ ~Unevaluable(file, r.conditions[i])
                           /\ evaluate_condition(file, r.conditions[i])
           IN IF r.condition_logic = "AND"
              THEN \A i \in 1..Len(r.conditions) : holds(i)
              ELSE \E i \in 1..Len(r.conditions) : holds(i)}

\* C11: a condition that cannot be evaluated is false and raises no error: the rule
\* preview and the unified preview return their result whatever the conditions are,
\* and plan every file by the rules as they match with such conditions counted as
\* false (the other conditions of the rule, the later rules and the later files are
\* still evaluated).
C11_ConditionsFailClosed ==
    /\ \A path \in {q \in Children(fs, R) : Eligible(fs, q)} :
          \A r \in Range(rules) :
             \A i \in 1..Len(r.conditions) :
                Unevaluable(FileInfo(fs, path), r.conditions[i]) =>
                    ~evaluate_condition(FileInfo(fs, path), r.conditions[i])
    /\ last.op = "preview_rules" =>
          /\ last.ok
          /\ \A path \in {q \in Children(fs, last.source) : Eligible(fs, q)} :
                LET hits == {i \in 1..Len(last.matches) : last.matches[i].file.path = path}
                IN /\ SoundMatches(FileInfo(fs, path)) = {} => hits = {}
                   /\ SoundMatches(FileInfo(fs, path)) # {} =>
                         /\ Cardinality(hits) = 1
                         /\ \A i \in hits :
                               last.matches[i].rule \in SoundMatches(FileInfo(fs, path))
    /\ last.op = "preview_unified" =>
          /\ ~last.ok => db_locked
          /\ last.ok =>
                \A path \in {q \in Children(fs, last.source) : Eligible(fs, q)} :
                   LET file == FileInfo(fs, path)
                       entries == PlanEntriesOf(path)
                   IN /\ SoundMatches(file) # {} =>
                            /\ Cardinality(entries) = 1
                            /\ \A i \in entries :
                                  /\ last.previews[i].match_type = "custom"
                                  /\ last.previews[i].rule[1] \in SoundMatches(file)
                      /\ SoundMatches(file) = {} =>
                            \A i \in entries : last.previews[i].match_type = "default"
                      /\ (SoundMatches(file) = {} /\ MatchingDefaultRules(file) # {}) =>
                            Cardinality(entries) = 1

\* a plan made with a rule of three conditions that cannot be evaluated ahead of the
\* other rule: a.jpg follows the other rule and b.xyz its default rule
C11_Witness ==
    /\ last.op = "preview_unified"
    /\ last.ok
    /\ RuleBroken \in Range(rules)
    /\ \E i \in PlanEntriesOf(FileA) :
          /\ last.previews[i].match_type = "custom"
          /\ last.previews[i].rule[1] = RuleJpg
    /\ \E i \in PlanEntriesOf(FileB) : last.previews[i].match_type = "default"

-----------------------------------------------------------------------------
(* History entries of the direct file commands *)

\* the step is a move_file or copy_file call that Skip resolved: the destination,
\* after a directory destination took the file's name, was there
SkipResolved ==
    /\ last'.op \in {"move_file", "copy_file"}
    /\ last'.overwrite = "skip"
    /\ exists(fs, last'.source)
    /\ exists(fs, IF is_dir(fs, last'.dest) THEN join(last'.dest, file_name(last'.source))
                  ELSE last'.dest)

\* the step has appended exactly one entry, not undone, tagged with the operation
AppendedOne(tag) ==
    /\ Len(history') = Len(history) + 1
    /\ SubSeq(history', 1, Len(history)) = history
    /\ history'[Len(history')].operation_type = tag
    /\ history'[Len(history')].details.action = tag
    /\ ~history'[Len(history')].details.is_array
    /\ ~history'[Len(history')].is_undone

\* C12: each move_file, copy_file, rename_file or delete_file call that returns
\* success after changing the file system has appended exactly one history entry
\* whose payload holds the action tag and the paths of the change; create_folder, a
\* call resolved by Skip (success, file system unchanged) and a call that returns an
\* error append none.
C12_OneEntryPerMutation ==
    [][/\ (last'.op \in {"move_file", "copy_file", "rename_file", "delete_file"}
            /\ ~last'.ok) => history' = history
       /\ last'.op = "create_folder" => history' = history
       /\ SkipResolved => (last'.ok /\ fs' = fs /\ history' = history)
       /\ (last'.op = "move_file" /\ last'.ok /\ ~SkipResolved) =>
             /\ AppendedOne("move")
             /\ history'[Len(history')].details.original_path = last'.source
             /\ history'[Len(history')].details.new_path = last'.value
             /\ exists(fs', last'.value)
       /\ (last'.op = "copy_file" /\ last'.ok /\ ~SkipResolved) =>
             /\ AppendedOne("copy")
             /\ history'[Len(history')].details.copied_path = last'.value
             /\ is_file(fs', last'.value)
       /\ (last'.op = "rename_file" /\ last'.ok) =>
             /\ AppendedOne("rename")
             /\ history'[Len(history')].details.original_path = last'.path
             /\ history'[Len(history')].details.new_path = last'.value
             /\ exists(fs', last'.value)
             /\ ~exists(fs', last'.path)
       /\ (last'.op = "delete_file" /\ last'.ok) =>
             /\ AppendedOne("delete")
             /\ history'[Len(history')].details.deleted_path = last'.path
             /\ history'[Len(history')].details.to_trash = last'.to_trash
             /\ ~exists(fs', last'.path)]_vars

\* a delete has just been recorded, after the entry of a copy
C12_Witness ==
    /\ last.op = "delete_file"
    /\ last.ok
    /\ Len(history) = 2
    /\ history[1].operation_type = "copy"
    /\ history[2].operation_type = "delete"
    /\ history[2].details.deleted_path = last.path

-----------------------------------------------------------------------------
(* rename_file and a name that is taken *)

\* the step is rename_file on an existing path; the new path is in the same folder
RenameStep ==
    /\ last'.op = "rename_file"
    /\ exists(fs, last'.path)

ResolvedNewPath == join(parent(last'.path), last'.new_name)

\* the step refused the rename as a conflict and changed nothing
RefusedAsConflict ==
    /\ ~last'.ok
    /\ last'.value = "File already exists"
    /\ fs' = fs
    /\ history' = history

\* C13 as claimed: rename_file refuses with 'already exists', changing no file and
\* recording nothing, exactly when the resolved new path exists and differs from the
\* original path; a rename onto the original path itself is not a conflict.
C13_RefusesOnlyOtherPaths ==
    [][RenameStep =>
          (RefusedAsConflict <=>
              (exists(fs, ResolvedNewPath) /\ ResolvedNewPath # last'.path))]_vars

\* C13 as amended: rename_file refuses with 'already exists', changing no file and
\* recording nothing, exactly when the resolved new path exists, the original path
\* itself included; it never overwrites an existing file.
C13_RefusesEveryTakenPath ==
    [][RenameStep =>
          /\ RefusedAsConflict <=> exists(fs, ResolvedNewPath)
          /\ (~last'.ok /\ last'.value = "File already exists") => RefusedAsConflict
          /\ \A q \in DOMAIN fs.files :
                q # last'.path => (is_file(fs', q) /\ fs'.files[q] = fs.files[q])
          /\ last'.ok => (/\ ~exists(fs, ResolvedNewPath)
                          /\ is_file(fs', ResolvedNewPath)
                          /\ fs'.files[ResolvedNewPath] = fs.files[last'.path])]_vars

\* a rename of a.jpg to its own name has been refused as a conflict
C13_Witness ==
    /\ last.op = "rename_file"
    /\ ~last.ok
    /\ last.value = "File already exists"
    /\ last.new_name = file_name(last.path)
    /\ is_file(fs, last.path)

-----------------------------------------------------------------------------
(* The history listing *)

\* the wall clock's seconds reach this far
MaxClock == 2

\* the second of the newest row; the wall clock does not run backwards
LatestSecond == IF Len(history) = 0 THEN 0 ELSE history[Len(history)].created_at

InitHistory ==
    /\ watch = IdleWatch
    /\ fs = BaseFs
    /\ ro = {}
    /\ xdev = {}
    /\ db_locked = FALSE
    /\ history = <<>>
    /\ rules = <<>>
    /\ default_rules = <<>>
    /\ last = [op |-> "init"]

\* add_history, in the second of the previous row or in a later one
AddHistory ==
    /\ Len(history) < MaxHistory
    /\ \E operation_type \in {"move", "delete"}, now \in LatestSecond..MaxClock :
        \E a \in {add_history_at(history, operation_type, Details(operation_type), now)} :
           /\ history' = a.history
           /\ last' = [op |-> "add_history", ok |-> a.ok, id |-> a.id]
           /\ UNCHANGED <<watch, fs, ro, xdev, db_locked, rules, default_rules>>

\* mark_history_undone(id)
MarkHistoryUndone ==
    \E id \in 1..Len(history) :
        \E m \in {mark_history_undone(history, id)} :
           /\ history' = m.history
           /\ last' = [op |-> "mark_history_undone", ok |-> m.ok, id |-> id]
           /\ UNCHANGED <<watch, fs, ro, xdev, db_locked, rules, default_rules>>

\* get_history(limit, offset)
GetHistory ==
    \E limit \in 0..MaxHistory, offset \in 0..MaxHistory :
        /\ last' = [op |-> "get_history", limit |-> limit, offset |-> offset,
                    ids |-> get_history(history, limit, offset)]
        /\ UNCHANGED <<watch, fs, ro, xdev, db_locked, history, rules, default_rules>>

NextHistory ==
    \/ AddHistory
    \/ MarkHistoryUndone
    \/ GetHistory
    \/ ExternalLock

SpecHistory == InitHistory /\ [][NextHistory]_vars

-----------------------------------------------------------------------------
(* Merging one folder into another *)

\* the source folder R holds a.jpg, b.xyz and sub/c.jpg; the target D holds another
\* a.jpg
MergeFs == [OpsFs EXCEPT !.files = @ @@ (<<"R", "sub", "c.jpg">> :> MetaB),
                         !.dirs = @ \cup {<<"R", "sub">>}]

InitMerge ==
    /\ watch = IdleWatch
    /\ fs = MergeFs
    /\ ro = {}
    /\ xdev = {}
    /\ db_locked = FALSE
    /\ history = <<>>
    /\ rules = <<>>
    /\ default_rules = <<>>
    /\ last = [op |-> "init"]

MergeStrategy == {"skip_existing", "overwrite_all", "overwrite_newer", "overwrite_older",
                  "rename"}

MergeOptions == [strategy : MergeStrategy, delete_source_after : BOOLEAN,
                 include_only_in_source : BOOLEAN, include_different : BOOLEAN]

MergeFolders ==
    \E source \in {R}, target \in {D}, options \in MergeOptions :
        \E r \in {merge_folders(fs, source, target, options)} :
            /\ Cardinality(DOMAIN fs.files) <= MaxFiles + 1
            /\ fs' = r.fs
            /\ last' = [op |-> "merge_folders", source |-> source, target |-> target,
                        options |-> options, ok |-> r.ok, result |-> r.result]
            /\ UNCHANGED <<watch, ro, xdev, db_locked, history, rules, default_rules>>

\* the target folder is made read-only, or writable again, from outside
ExternalChmodTarget ==
    /\ ro' = IF D \in ro THEN ro \ {D} ELSE ro \cup {D}
    /\ last' = [op |-> "external"]
    /\ UNCHANGED <<watch, fs, xdev, db_locked, history, rules, default_rules>>

NextMerge == MergeFolders \/ ExternalChmod \/ ExternalChmodTarget

SpecMerge == InitMerge /\ [][NextMerge]_vars

\* the files and folders of the tree rooted at root
Tree(f, root) == [files |-> Restrict(f.files, {q \in DOMAIN f.files : IsPrefix(root, q)}),
                  dirs |-> {d \in f.dirs : IsPrefix(root, d)}]

MergeStep == last'.op = "merge_folders" /\ last'.ok

CopyErrors(result) == {i \in 1..Len(result.errors) : result.errors[i][1] = "copy"}

\* C15: a merge removes the source tree only when it was asked to
\* (delete_source_after) and the copy phase recorded no error; when a copy error
\* was recorded the source tree is left exactly as it was and success is false
C15_SourceRemovedOnlyWithoutErrors ==
    [][MergeStep =>
         /\ (Tree(fs', last'.source) # Tree(fs, last'.source))
              => (last'.options.delete_source_after
                  /\ CopyErrors(last'.result) = {})
         /\ (CopyErrors(last'.result) # {})
              => (Tree(fs', last'.source) = Tree(fs, last'.source)
                  /\ ~last'.result.success)
         /\ (last'.options.delete_source_after /\ last'.result.success)
              => ~exists(fs', last'.source)]_vars

\* a merge that was to delete its source copied one file, failed on another, and
\* the source folder still holds its three files
C15_Witness ==
    /\ last.op = "merge_folders" /\ last.ok
    /\ last.options.delete_source_after
    /\ last.result.files_overwritten = 1
    /\ Len(last.result.errors) = 2
    /\ ~last.result.success
    /\ Cardinality(DOMAIN Tree(fs, R).files) = 3

-----------------------------------------------------------------------------
(* Duplicate detection (commands/analyzer.rs) *)

\* In this section the content of a file is a sequence of runs <<byte, count>>, so
\* that files of 64 KiB and more can be written down; no two neighbouring runs
\* have the same byte.
RECURSIVE run_len(_)
run_len(runs) == IF Len(runs) = 0 THEN 0 ELSE Head(runs)[2] + run_len(Tail(runs))

\* the first n bytes of a content (read_exact into a buffer of n bytes)
RECURSIVE take_bytes(_, _)
take_bytes(runs, n) ==
    IF n = 0 \/ Len(runs) = 0 THEN <<>>
    ELSE IF Head(runs)[2] >= n THEN << <<Head(runs)[1], n>> >>
    ELSE << Head(runs) >> \o take_bytes(Tail(runs), n - Head(runs)[2])

\* the last n bytes of a content (seek(End(-n)) and read_exact)
take_last_bytes(runs, n) ==
    LET rev(s) == [i \in 1..Len(s) |-> s[Len(s) + 1 - i]]
    IN rev(take_bytes(rev(runs), n))

\* a fingerprint that reads the last 64 KiB from 128 KiB on
quick_hash_from_both_ends(runs) ==
    LET file_size == run_len(runs)
        first == take_bytes(runs, IF QuickHashWindow < file_size THEN QuickHashWindow
                                  ELSE file_size)
        end_buffer == IF file_size >= QuickHashBothEnds
                      THEN take_last_bytes(runs, QuickHashWindow) ELSE <<>>
    IN <<first, end_buffer, file_size>>

\* compute_file_hash of analyzer.rs: xxh3_64 over the first 64 KiB, the last 64 KiB
\* of a file larger than 128 KiB, and the size; the digest is taken as one-to-one
\* on what is hashed
quick_hash(runs) ==
    LET file_size == run_len(runs)
        first == take_bytes(runs, IF QuickHashWindow < file_size THEN QuickHashWindow
                                  ELSE file_size)
        end_buffer == IF file_size > QuickHashBothEnds
                      THEN take_last_bytes(runs, QuickHashWindow) ELSE <<>>
    IN <<first, end_buffer, file_size>>

\* find_duplicates(path): [ok, results], results being the vectors the call can
\* return (the order of equal-waste groups follows the iteration order of a
\* HashMap); a group is [hash, size, files], files a set of paths
find_duplicates(f, path) ==
    LET hash(runs) == quick_hash(runs)
        walked == {q \in DOMAIN f.files : IsPrefix(path, q)}
        size(q) == run_len(f.files[q].data)
        size_groups == {{q \in walked : size(q) = n /\ n > 0} : n \in {size(q) : q \in walked}}
        hashed == UNION {g \in size_groups : Cardinality(g) > 1}
        hash_groups == {{q \in hashed : hash(f.files[q].data) = h} :
                           h \in {hash(f.files[q].data) : q \in hashed}}
        duplicates == {[hash |-> hash(f.files[CHOOSE q \in g : TRUE].data),
                        size |-> size(CHOOSE q \in g : TRUE),
                        files |-> g] : g \in {x \in hash_groups : Cardinality(x) > 1}}
        waste(d) == d.size * (Cardinality(d.files) - 1)
    IN IF ~exists(f, path) THEN [ok |-> FALSE, results |-> {}]
       ELSE [ok |-> TRUE,
             results |-> {p \in Perms(duplicates) :
                             \A i, j \in 1..Len(p) : i < j => waste(p[i]) >= waste(p[j])}]

\* contents of 0 bytes, 1 byte, 64 KiB, 128 KiB and 192 KiB
DupData == { <<>>, << <<"A", 1>> >>, << <<"B", 1>> >>,
             << <<"A", 65536>> >>,
             << <<"A", 131072>> >>, << <<"A", 65536>>, <<"B", 65536>> >>,
             << <<"A", 196608>> >>, << <<"A", 65536>>, <<"B", 65536>>, <<"A", 65536>> >> }

DupNames == {"w.bin", "x.bin", "y.bin", "z.bin"}

\* a folder R holding any of four files, each with any of the contents
InitDup ==
    /\ watch = IdleWatch
    /\ \E present \in SUBSET DupNames :
          \E content \in [present -> DupData] :
              fs = [files |-> [q \in {join(R, n) : n \in present} |->
                                 [data |-> content[file_name(q)]]],
                    dirs |-> {Root, R}, trash |-> {}]
    /\ ro = {}
    /\ xdev = {}
    /\ db_locked = FALSE
    /\ history = <<>>
    /\ rules = <<>>
    /\ default_rules = <<>>
    /\ last = [op |-> "init"]

FindDuplicates ==
    \E path \in {R} :
        \E r \in {find_duplicates(fs, path)} :
            \E result \in (IF r.ok THEN r.results ELSE {<<>>}) :
                /\ last' = [op |-> "find_duplicates", path |-> path, ok |-> r.ok,
                            result |-> result]
                /\ UNCHANGED <<watch, fs, ro, xdev, db_locked, history, rules, default_rules>>

NextDup == FindDuplicates

SpecDup == InitDup /\ [][NextDup]_vars

Scanned == last.op = "find_duplicates" /\ last.ok

FilesOf(path) == {q \in DOMAIN fs.files : IsPrefix(path, q)}

Waste(d) == d.size * (Cardinality(d.files) - 1)

-----------------------------------------------------------------------------
(* Deleting a backup (commands/file_ops.rs) *)

\* what the operating system makes of a path: every component but the last must
\* lead to a directory, ".." leads to the parent; NoPath when the walk fails
RECURSIVE resolve_from(_, _, _)
resolve_from(f, cur, rest) ==
    IF Len(rest) = 0 THEN cur
    ELSE IF ~is_dir(f, cur) THEN NoPath
    ELSE IF Head(rest) = ".." THEN resolve_from(f, parent(cur), Tail(rest))
    ELSE resolve_from(f, join(cur, Head(rest)), Tail(rest))

Documents == <<"Documents">>

\* delete_backup(backup_path); document_dir is UserDirs::document_dir(), NoPath
\* when there is none.  [ok, fs]
delete_backup(f, backup_path, document_dir) ==
    LET path == backup_path
        target == resolve_from(f, Root, path)
        backup_base == join(document_dir, "Desktop_Backups")
        rm == fs_remove_dir_all(f, target)
    IN IF target = NoPath \/ ~exists(f, target) THEN [ok |-> FALSE, fs |-> f]
       ELSE IF document_dir = NoPath THEN [ok |-> FALSE, fs |-> f]
       ELSE IF ~IsPrefix(backup_base, path) THEN [ok |-> FALSE, fs |-> f]
       ELSE IF ~rm.ok THEN [ok |-> FALSE, fs |-> f]
       ELSE [ok |-> TRUE, fs |-> rm.fs]

BackupBase == join(Documents, "Desktop_Backups")

\* Documents holds a folder of its own and the backup root with two backups
BackupFs ==
    [files |-> (<<"Documents", "Important", "thesis.doc">> :> MetaA)
               @@ (<<"Documents", "Desktop_Backups", "b1", "a.jpg">> :> MetaA)
               @@ (<<"Documents", "Desktop_Backups", "b2", "b.xyz">> :> MetaB),
     dirs |-> {Root, Documents, join(Documents, "Important"), BackupBase,
               join(BackupBase, "b1"), join(BackupBase, "b2")},
     trash |-> {}]

InitBackup ==
    /\ watch = IdleWatch
    /\ fs = BackupFs
    /\ ro = {}
    /\ xdev = {}
    /\ db_locked = FALSE
    /\ history = <<>>
    /\ rules = <<>>
    /\ default_rules = <<>>
    /\ last = [op |-> "init"]

BackupPaths == {join(BackupBase, "b1"), join(BackupBase, "b2"),
                join(BackupBase, "b1") \o <<"a.jpg">>,
                BackupBase,
                BackupBase \o <<"..", "Important">>,
                BackupBase \o <<"b1", "..", "..", "Important">>,
                BackupBase \o <<"b1", "..", "b2">>,
                join(Documents, "Important"), Documents,
                join(BackupBase, "b3")}

DeleteBackup ==
    \E backup_path \in BackupPaths, document_dir \in {Documents, NoPath} :
        \E r \in {delete_backup(fs, backup_path, document_dir)} :
            /\ fs' = r.fs
            /\ last' = [op |-> "delete_backup", backup_path |-> backup_path,
                        document_dir |-> document_dir, ok |-> r.ok]
            /\ UNCHANGED <<watch, ro, xdev, db_locked, history, rules, default_rules>>

\* a folder is made read-only, or writable again, from outside
ExternalChmodBackup ==
    \E d \in {BackupBase, join(BackupBase, "b1")} :
        /\ ro' = IF d \in ro THEN ro \ {d} ELSE ro \cup {d}
        /\ last' = [op |-> "external"]
        /\ UNCHANGED <<watch, fs, xdev, db_locked, history, rules, default_rules>>

NextBackup == DeleteBackup \/ ExternalChmodBackup

SpecBackup == InitBackup /\ [][NextBackup]_vars

\* q lies below d and is not d
Descendant(d, q) == q # NoPath /\ IsPrefix(d, q) /\ q # d

\* C17: delete_backup removes something only when the path it was given leads to
\* a descendant of the backup root; for every other existing path (the root
\* itself, a path leaving the root through "..") it fails and removes nothing
C17_OnlyDescendantsDeleted ==
    [][(last'.op = "delete_backup" /\ last'.document_dir # NoPath)
         => LET target == resolve_from(fs, Root, last'.backup_path)
            IN /\ fs' # fs => Descendant(BackupBase, target)
               /\ (target # NoPath /\ exists(fs, target)
                   /\ ~Descendant(BackupBase, target))
                    => (~last'.ok /\ fs' = fs)]_vars

-----------------------------------------------------------------------------
(* Watching a folder: the commands, the notify backend and the consumer threads *)

EventKinds == {"create", "access", "error"}

Rest == <<fs, ro, xdev, db_locked, history, rules, default_rules>>

\* command start_watching, run under the mutex of WatcherState
StartWatching ==
    \E path \in {R, <<"missing">>}, created_ok \in BOOLEAN :
        /\ watch.created < MaxWatches
        /\ \E r \in {IF ~exists(fs, path) THEN [ok |-> FALSE, watch |-> watch]
                       ELSE start_watching(watch, path, created_ok)} :
              /\ watch' = r.watch
              /\ last' = [op |-> "start_watching", path |-> path, ok |-> r.ok]
        /\ UNCHANGED Rest

\* command stop_watching, run under the mutex of WatcherState
StopWatching ==
    /\ watch' = stop_watching(watch)
    /\ last' = [op |-> "stop_watching", ok |-> TRUE]
    /\ UNCHANGED Rest

\* the notify backend calls the closure of the live watcher: tx.send(res)
NotifyEvent ==
    \E kind \in EventKinds :
        /\ Len(watch.watcher) = 1
        /\ Len(watch.rx[watch.watcher[1]]) < MaxQueue
        /\ watch' = [watch EXCEPT !.rx[watch.watcher[1]] = Append(@, kind)]
        /\ UNCHANGED <<Rest, last>>

\* a consumer whose loop does not look at the stop channel
ConsumerSkipStop(i) ==
    /\ watch.pc[i] = "check_stop"
    /\ watch' = [watch EXCEPT !.pc[i] = "recv"]
    /\ UNCHANGED <<Rest, last>>

\* consumer thread i: stop_rx.try_recv()
ConsumerCheckStop(i) ==
    /\ watch.pc[i] = "check_stop"
    /\ watch' = IF watch.stop_rx[i] > 0
                THEN [watch EXCEPT !.stop_rx[i] = @ - 1, !.pc[i] = "done"]
                ELSE [watch EXCEPT !.pc[i] = "recv"]
    /\ UNCHANGED <<Rest, last>>

\* consumer thread i: rx.recv_timeout(100 ms)
ConsumerRecv(i) ==
    /\ watch.pc[i] = "recv"
    /\ watch' =
          IF Len(watch.rx[i]) > 0
          THEN IF Head(watch.rx[i]) = "error"
               THEN [watch EXCEPT !.rx[i] = Tail(@), !.pc[i] = "check_stop"]
               ELSE [watch EXCEPT !.rx[i] = Tail(@), !.pc[i] = "handle",
                                  !.cur[i] = Head(watch.rx[i])]
          ELSE IF watch.watcher # <<i>>
               THEN [watch EXCEPT !.pc[i] = "done"]          \* Disconnected
               ELSE [watch EXCEPT !.pc[i] = "check_stop"]    \* Timeout
    /\ UNCHANGED <<Rest, last>>

\* consumer thread i: handle_event returns (after app.emit unless the event is
\* an access event)
ConsumerHandle(i) ==
    /\ watch.pc[i] = "handle"
    /\ watch' = [watch EXCEPT !.pc[i] = "check_stop", !.cur[i] = "none"]
    /\ UNCHANGED <<Rest, last>>

Consumer == \E i \in Watches : ConsumerCheckStop(i) \/ ConsumerRecv(i) \/ ConsumerHandle(i)

NextWatch == StartWatching \/ StopWatching \/ NotifyEvent \/ Consumer

SpecWatch == InitOps /\ [][NextWatch]_vars

\* consumer loop i has not ended
Running(i) == watch.pc[i] \in {"check_stop", "recv", "handle"}

\* consumer loop i is in handle_event with an event it emits as "file-change"
Forwarding(i) == watch.pc[i] = "handle" /\ watch.cur[i] # "access"

\* C18: at most one watch is active at any time: the consumer loop of the
\* previous watch is over before the next watch begins, so that no two consumer
\* loops forward file-change events at the same time
C18_OneConsumerLoop ==
    /\ Cardinality({i \in Watches : Running(i)}) <= 1
    /\ Cardinality({i \in Watches : Forwarding(i)}) <= 1

-----------------------------------------------------------------------------
(* The seeded extension mappings (database/mod.rs) *)

\* insert_default_extension_mappings: INSERT OR IGNORE of every default row into
\* table extension_mappings (a set of rows, at most one row per extension)
insert_default_extension_mappings(table) ==
    LET rows(exts, category, folder) ==
            {[extension |-> e, category |-> category, target_folder |-> folder] :
                e \in exts}
        mappings ==
            rows({".jpg", ".jpeg", ".png", ".gif", ".bmp", ".svg", ".webp", ".ico", ".psd",
                  ".ai"}, "images", "Images")
            \cup rows({".pdf", ".doc", ".docx", ".xls", ".xlsx", ".ppt", ".pptx", ".hwp",
                       ".hwpx", ".txt", ".rtf", ".odt"}, "documents", "Documents")
            \cup rows({".mp4", ".avi", ".mkv", ".mov", ".wmv", ".flv", ".webm"},
                      "videos", "Videos")
            \cup rows({".mp3", ".wav", ".flac", ".aac", ".m4a", ".wma", ".ogg"},
                      "music", "Music")
            \cup rows({".zip", ".rar", ".7z", ".tar", ".gz", ".bz2"}, "archives", "Archives")
            \cup rows({".exe", ".msi", ".dmg", ".pkg", ".deb", ".rpm"},
                      "installers", "Installers")
            \cup rows({".py", ".js", ".ts", ".tsx", ".jsx", ".html", ".css", ".java",
                       ".cpp", ".c", ".h", ".rs", ".go", ".json", ".xml", ".yaml", ".yml",
                       ".md"}, "code", "Code")
    IN table \cup {m \in mappings : \A t \in table : t.extension # m.extension}

\* init_database on a new database: the mappings are seeded when the table is empty
SeededMappings == insert_default_extension_mappings({})

\* the name under which serde writes a FileCategory (rename_all = "lowercase")
category_name(category) == to_lowercase(category)

LookupInputs ==
    {m.extension : m \in SeededMappings}
    \cup ImagesExt \cup DocumentsExt \cup VideosExt \cup MusicExt \cup ArchivesExt
    \cup InstallersExt \cup CodeExt \cup {".JPG", ".xyz", ""}

\* an extension is looked up in the seeded table and classified
LookupExtension ==
    \E extension \in LookupInputs :
        /\ last' = [op |-> "lookup", extension |-> extension,
                    mapping |-> {m \in SeededMappings : m.extension = extension},
                    category |-> classify_extension(extension)]
        /\ UNCHANGED <<Rest, watch>>

NextSeed == LookupExtension

SpecSeed == InitOps /\ [][NextSeed]_vars

\* C19: every seeded extension is seeded with the category that
\* classify_extension returns for it
C19_SeedAgreesWithClassifier ==
    last.op = "lookup" =>
        \A m \in last.mapping : m.category = category_name(last.category)

-----------------------------------------------------------------------------
(* Undoing a batch, pair by pair *)

\* the undo recorded an error for the pair whose moved file is at new_path
FailedPair(errors, new_path) == \E k \in 1..Len(errors) : errors[k][2] = new_path

-----------------------------------------------------------------------------
(* The folders left behind by a batch undo *)

\* d is an empty folder of f that remove_dir would remove
EmptyRemovable(f, d) ==
    is_dir(f, d) /\ Len(d) > 0 /\ Children(f, d) = {} /\ Writable(parent(d))

\* the folders cleanup_empty_folders may remove for the given pairs: the parent
\* of every new path, and the parent of that
CleanupReach(moves) ==
    folders_to_check(moves) \cup {parent(d) : d \in {x \in folders_to_check(moves) : Len(x) > 0}}

\* C21: after a batch undo no parent folder of a recorded new path is left
\* empty, and neither is the parent of such a folder; no folder further up is
\* removed, no folder that holds something is removed, and the result of the undo
\* is that of the pairs alone
C21_EmptyFoldersRemoved ==
    [][\A id \in 1..MaxHistory :
          BatchUndoStepOf(id) =>
              LET moves == history[id].details.moves
              IN /\ \A d \in CleanupReach(moves) : ~EmptyRemovable(fs', d)
                 /\ \A d \in fs.dirs \ fs'.dirs :
                       /\ d \in CleanupReach(moves)
                       /\ \A q \in DOMAIN fs'.files : ~IsPrefix(d, q)
                 /\ (last'.ok \/ last'.err = "mark_history_undone")
                       <=> (last'.undo_errors = <<>>)]_vars

-----------------------------------------------------------------------------
(* Unified organization with rules that copy, delete or name another action *)

\* copies a.jpg to D
RuleCopy == [id |-> 7, name |-> "copy jpg", priority |-> 5, enabled |-> TRUE,
             conditions |-> <<Cond("extension", "equals", ".jpg")>>,
             condition_logic |-> "AND", action_type |-> "copy",
             action_destination |-> D, create_date_subfolder |-> FALSE]
\* deletes b.xyz; a delete rule has no destination
RuleTrash == [id |-> 8, name |-> "delete xyz", priority |-> 4, enabled |-> TRUE,
              conditions |-> <<Cond("extension", "equals", ".xyz")>>,
              condition_logic |-> "AND", action_type |-> "delete",
              action_destination |-> NoPath, create_date_subfolder |-> FALSE]
\* an action type the program does not know
RuleZip == [id |-> 9, name |-> "zip", priority |-> 3, enabled |-> TRUE,
            conditions |-> <<Cond("name", "endsWith", ".jpg")>>,
            condition_logic |-> "AND", action_type |-> "compress",
            action_destination |-> D, create_date_subfolder |-> FALSE]

ActionTables == { <<RuleCopy>>, <<RuleTrash>>, <<RuleZip>>, <<RuleCopy, RuleTrash>> }

InitActions ==
    /\ watch = IdleWatch
    /\ fs = BaseFs
    /\ ro = {}
    /\ xdev \in {{}, {D}}
    /\ db_locked = FALSE
    /\ history = <<>>
    /\ rules \in ActionTables
    /\ default_rules = <<>>
    /\ last = [op |-> "init"]

SpecActions == InitActions /\ [][Next]_vars

\* the plan entries of the last execute_unified that were acted upon: matched by
\* a custom rule, not excluded, the file present before the call
ActedCustom ==
    IF last'.op = "execute_unified" /\ last'.ok
    THEN {i \in 1..Len(last'.previews) :
             /\ last'.previews[i].match_type = "custom"
             /\ last'.previews[i].destination \notin last'.excluded
             /\ is_file(fs, last'.previews[i].file.path)}
    ELSE {}

\* C22: in unified organization a file matched by a custom rule undergoes that
\* rule's action: a copy rule leaves the file in place and adds a copy at the
\* destination, a delete rule sends it to the trash, and a rule with an
\* unsupported action type gives an error for the file and does not move it
C22_RuleActionApplied ==
    [][\A i \in ActedCustom :
          LET preview == last'.previews[i]
              rule == preview.rule[1]
              path == preview.file.path
              dest_file == join(unified_dest_folder(preview, last'.source), preview.file.name)
              same(q) == is_file(fs', q) /\ fs'.files[q].data = fs.files[path].data
          IN /\ rule.action_type = "copy"
                  => (last'.result.errors = <<>> => (same(path) /\ same(dest_file)))
             /\ rule.action_type = "delete"
                  => (last'.result.errors = <<>>
                      => (~exists(fs', path)
                          /\ \E t \in fs'.trash : t.path = path))
             /\ rule.action_type \notin {"move", "copy", "delete", "rename"}
                  => (same(path) /\ last'.result.errors # <<>>)]_vars

-----------------------------------------------------------------------------
(* Renaming and undoing it *)

RenameRuleSets == { <<RenameRule("prefix", "x")>>, <<RenameRule("suffix", "1")>>,
                    <<RenameRule("sequence", "")>>,
                    <<RenameRule("prefix", ""), RenameRule("title", "")>> }

ExecuteRename ==
    /\ Len(history) < MaxHistory
    /\ \E file_paths \in {<<FileA>>, <<FileA, FileB>>, <<FileB, join(R, "gone.txt")>>},
          rename_rules \in RenameRuleSets :
        \E x \in {execute_rename(fs, history, file_paths, rename_rules)} :
           /\ fs' = x.fs
           /\ history' = x.history
           /\ last' = [op |-> "execute_rename", file_paths |-> file_paths,
                       rules |-> rename_rules, ok |-> TRUE, result |-> x.result]
           /\ UNCHANGED <<watch, ro, xdev, db_locked, rules, default_rules>>

NextRename ==
    \/ RenameFile
    \/ ExecuteRename
    \/ UndoOperation
    \/ ExternalChmod
    \/ ExternalLock

SpecRename == InitOps /\ [][NextRename]_vars

\* the (original, new) pairs a rename entry records
RecordedRenames(d) ==
    IF d.files # <<>> THEN d.files ELSE << <<d.original_path, d.new_path>> >>

\* C23: undoing an entry recorded by a rename (by rename_file, or by
\* execute_rename for a batch), with nothing read-only and the database
\* writable, renames every recorded new path that still exists back to its
\* original path and marks the entry undone
C23_RenameEntriesUndone ==
    [][\A id \in 1..MaxHistory :
          (/\ UndoStepOf(id)
           /\ ~history[id].is_undone
           /\ history[id].operation_type = "rename"
           /\ ro = {} /\ ~db_locked)
          => /\ last'.ok
             /\ history'[id].is_undone
             /\ LET pairs == RecordedRenames(history[id].details)
                IN \A i \in 1..Len(pairs) :
                      is_file(fs, pairs[i][2])
                      => /\ is_file(fs', pairs[i][1])
                         /\ fs'.files[pairs[i][1]].data = fs.files[pairs[i][2]].data
                         /\ ~exists(fs', pairs[i][2])]_vars

-----------------------------------------------------------------------------
(* The end of a stopped consumer loop *)

\* every consumer is a thread of its own: the scheduler runs it, try_recv does
\* not block, recv_timeout returns within its 100 ms and handle_event returns
SpecWatchFair ==
    /\ SpecWatch
    /\ \A i \in Watches :
          WF_vars(ConsumerCheckStop(i) \/ ConsumerRecv(i) \/ ConsumerHandle(i))

\* watch i was started and stop_watching has taken its stop sender since
Stopped(i) == watch.pc[i] # "unborn" /\ watch.stop_sender # <<i>>

\* C24: once stop_watching has been called, the consumer loop of the stopped
\* watch eventually ends, whatever events arrive in between; and the first look
\* at the stop channel after the call ends it, so that it receives at most once
\* more
C24_StoppedConsumerTerminates ==
    /\ \A i \in Watches : (Stopped(i) ~> ~Running(i))
    /\ [][\A i \in Watches :
             (Stopped(i) /\ watch.pc[i] = "check_stop" /\ watch'.pc[i] # "check_stop")
             => watch'.pc[i] = "done"]_vars

\* a consumer ended by the stop token while events were still waiting for it,
\* next to a younger watch that is running
C24_Witness ==
    \E i \in Watches :
        /\ Stopped(i) /\ watch.pc[i] = "done" /\ Len(watch.rx[i]) > 0
        /\ \E j \in Watches : j # i /\ Running(j)

-----------------------------------------------------------------------------
(* What a fingerprint reads *)

\* contents of 0 and 1 bytes, of 64 KiB, 64 KiB + 1, 128 KiB and 128 KiB + 1, that
\* differ in the front window, behind it, in the back window or before it
HashData ==
    { <<>>, << <<"A", 1>> >>, << <<"B", 1>> >>,
      << <<"A", 65536>> >>, << <<"A", 65535>>, <<"B", 1>> >>,
      << <<"A", 65537>> >>, << <<"A", 65536>>, <<"B", 1>> >>, << <<"B", 1>>, <<"A", 65536>> >>,
      << <<"A", 131072>> >>, << <<"A", 65536>>, <<"B", 65536>> >>,
      << <<"A", 65536>>, <<"B", 1>>, <<"A", 65535>> >>, << <<"A", 131071>>, <<"B", 1>> >>,
      << <<"A", 65535>>, <<"B", 1>>, <<"A", 65536>> >>,
      << <<"A", 131073>> >>, << <<"A", 65536>>, <<"B", 1>>, <<"A", 65536>> >>,
      << <<"A", 65537>>, <<"B", 1>>, <<"A", 65535>> >>, << <<"A", 131072>>, <<"B", 1>> >>,
      << <<"B", 1>>, <<"A", 131072>> >> }

HashNames == {"x.bin", "y.bin"}

\* a folder R holding two files, each with any of the contents
InitHash ==
    /\ watch = IdleWatch
    /\ \E content \in [HashNames -> HashData] :
          fs = [files |-> [q \in {join(R, n) : n \in HashNames} |->
                             [data |-> content[file_name(q)]]],
                dirs |-> {Root, R}, trash |-> {}]
    /\ ro = {}
    /\ xdev = {}
    /\ db_locked = FALSE
    /\ history = <<>>
    /\ rules = <<>>
    /\ default_rules = <<>>
    /\ last = [op |-> "init"]

\* compute_file_hash on every file of the folder, as find_duplicates does for the
\* files of one size
ComputeFileHash ==
    /\ last.op = "init"
    /\ last' = [op |-> "compute_file_hash",
                hash |-> [q \in DOMAIN fs.files |-> quick_hash(fs.files[q].data)]]
    /\ UNCHANGED <<watch, fs, ro, xdev, db_locked, history, rules, default_rules>>

NextHash == ComputeFileHash

SpecHash == InitHash /\ [][NextHash]_vars

\* byte k (from 1) of a content
RECURSIVE byte_at(_, _)
byte_at(runs, k) ==
    IF k <= Head(runs)[2] THEN Head(runs)[1] ELSE byte_at(Tail(runs), k - Head(runs)[2])

\* the positions at which a run of the content begins
RunStarts(runs) == {1 + run_len(SubSeq(runs, 1, i - 1)) : i \in 1..Len(runs)}

\* two contents have the same bytes at the positions from..to: between two
\* neighbouring run starts neither content changes
AgreeOn(x, y, from, to) ==
    \A k \in ({from} \cup RunStarts(x) \cup RunStarts(y)) \cap (from..to) :
        byte_at(x, k) = byte_at(y, k)

\* two contents of equal length agree on what the claim says is read: the first
\* min(65536, length) bytes and, when length > 131072, the last 65536 bytes
SameWindows(x, y) ==
    LET n == run_len(x)
    IN /\ run_len(y) = n
       /\ AgreeOn(x, y, 1, IF n < 65536 THEN n ELSE 65536)
       /\ n > 131072 => AgreeOn(x, y, n - 65535, n)

\* C25: two files of equal length that agree on the first min(65536, length)
\* bytes and, only when length > 131072, on the last 65536 bytes get equal
\* fingerprints whatever their other bytes are: at 65536, 65537 and 131072 bytes
\* the front window decides, at 131073 bytes the front and the back window
C25_FingerprintWindows ==
    last.op = "compute_file_hash" =>
        \A p, q \in DOMAIN fs.files :
            SameWindows(fs.files[p].data, fs.files[q].data) => last.hash[p] = last.hash[q]

\* fingerprinted: two files of 128 KiB + 1 that differ in byte 65537 alone, the
\* one byte neither window holds, with equal fingerprints
C25_Witness ==
    /\ last.op = "compute_file_hash"
    /\ fs.files[join(R, "x.bin")].data = << <<"A", 131073>> >>
    /\ fs.files[join(R, "y.bin")].data = << <<"A", 65536>>, <<"B", 1>>, <<"A", 65536>> >>
    /\ last.hash[join(R, "x.bin")] = last.hash[join(R, "y.bin")]

-----------------------------------------------------------------------------
(* Undo onto a path that is taken again *)

\* the user puts a new file where a file used to be, outside the application
ExternalCreate ==
    \E path \in {FileA, FileB} :
        /\ ~exists(fs, path)
        /\ is_dir(fs, parent(path))
        /\ fs' = [fs EXCEPT !.files = @ @@ (path :> [data |-> "NEW",
                                                   created_at |-> "2024-03-01 09:00:00",
                                                   modified_at |-> "2024-03-01 09:00:00"])]
        /\ last' = [op |-> "external"]
        /\ UNCHANGED <<watch, ro, xdev, db_locked, history, rules, default_rules>>

NextRetaken ==
    \/ MoveFile
    \/ RenameFile
    \/ OrganizeDefaults
    \/ UndoOperation
    \/ ExternalCreate

SpecRetaken == InitOps /\ [][NextRetaken]_vars

\* the (original, new) pairs of a move, rename or batch payload
PairsToUndo(d) ==
    IF d.is_array THEN d.moves
    ELSE IF d.action \in {"move", "rename"} /\ d.original_path # NoPath /\ d.new_path # NoPath
    THEN << <<d.original_path, d.new_path>> >>
    ELSE <<>>

\* C26: when undo_operation undoes a move, rename or batch entry and another
\* file is now at a recorded original path, that file is still there afterwards
\* with its content
C26_UndoKeepsFileAtOriginalPath ==
    [][\A id \in 1..MaxHistory :
          (UndoStepOf(id) /\ ~history[id].is_undone)
          => LET pairs == PairsToUndo(history[id].details)
             IN \A i \in 1..Len(pairs) :
                   (/\ pairs[i][1] # pairs[i][2]
                    /\ is_file(fs, pairs[i][1])
                    /\ is_file(fs, pairs[i][2]))
                   => /\ is_file(fs', pairs[i][1])
                      /\ fs'.files[pairs[i][1]] = fs.files[pairs[i][1]]]_vars

-----------------------------------------------------------------------------
(* Organizing into a folder that already holds a file of the same name *)

InitTaken ==
    /\ watch = IdleWatch
    /\ fs = OpsFs
    /\ ro = {}
    /\ xdev \in {{}, {D}}
    /\ db_locked = FALSE
    /\ history = <<>>
    /\ rules \in RuleTables
    /\ default_rules = <<>>
    /\ last = [op |-> "init"]

NextTaken ==
    \/ ExecuteUnified
    \/ ExecuteRules
    \/ SaveRule

SpecTaken == InitTaken /\ [][NextTaken]_vars

\* C27: execute_unified and execute_rules leave a file that already exists
\* under the name of an organized file in another folder present, with its
\* content unchanged
C27_ExistingDestinationKept ==
    [][(last'.op \in {"execute_unified", "execute_rules"} /\ last'.ok)
         => \A p, q \in DOMAIN fs.files :
               (/\ parent(p) = last'.source
                /\ parent(q) # last'.source
                /\ file_name(q) = file_name(p))
               => /\ is_file(fs', q)
                  /\ fs'.files[q].data = fs.files[q].data]_vars

-----------------------------------------------------------------------------
(* What is left of a source tree that a merge deleted *)

\* C28: when merge_folders ran with delete_source_after and the source tree is
\* gone, every file the source tree held is in the target tree with the same
\* content, at the same relative path or next to it under another name,
\* whatever the strategy and the include options
C28_DeletedSourceIsInTarget ==
    [][(MergeStep /\ last'.options.delete_source_after
          /\ exists(fs, last'.source) /\ ~exists(fs', last'.source))
         => \A q \in DOMAIN Tree(fs, last'.source).files :
               LET at == last'.target \o SubSeq(q, Len(last'.source) + 1, Len(q))
               IN \E t \in DOMAIN Tree(fs', last'.target).files :
                     /\ parent(t) = parent(at)
                     /\ fs'.files[t].data = fs.files[q].data]_vars

-----------------------------------------------------------------------------
(* Undoing an organization whose files are gone *)

\* the user deletes a file outside the application
ExternalRemoveFile ==
    \E path \in DOMAIN fs.files :
        /\ IsPrefix(R, path)
        /\ fs' = [fs EXCEPT !.files = Restrict(@, DOMAIN @ \ {path})]
        /\ last' = [op |-> "external"]
        /\ UNCHANGED <<watch, ro, xdev, db_locked, history, rules, default_rules>>

NextGone ==
    \/ OrganizeDefaults
    \/ UndoOperation
    \/ ExternalRemoveFile
    \/ ExternalChmod

SpecGone == InitOps /\ [][NextGone]_vars

\* C29: undoing an organize entry does not remove the organized directory, the
\* one the recorded files came from, whether or not the moved files are still
\* at their new paths
C29_SourceDirectoryKept ==
    [][\A id \in 1..MaxHistory :
          BatchUndoStepOf(id)
          => LET moves == history[id].details.moves
             IN \A i \in 1..Len(moves) :
                   is_dir(fs, parent(moves[i][1])) => is_dir(fs', parent(moves[i][1]))]_vars

-----------------------------------------------------------------------------
(* Moves and renames, undone newest first *)

\* move_file with the Rename or the Skip strategy, on any file there is and on
\* one that is missing
MoveFileKeeping ==
    /\ Len(history) < MaxHistory
    /\ \A i \in 1..Len(history) : ~history[i].is_undone
    /\ \E source \in DOMAIN fs.files \cup {join(R, "gone.txt")}, dest \in {D, R},
          overwrite \in {"rename", "skip"} :
        \E m \in {move_file(fs, history, source, dest, overwrite)} :
           /\ fs' = m.fs
           /\ history' = m.history
           /\ last' = [op |-> "move_file", source |-> source, dest |-> dest,
                       overwrite |-> overwrite, ok |-> m.ok, value |-> m.value]
           /\ UNCHANGED <<watch, ro, xdev, db_locked, rules, default_rules>>

\* rename_file on any file there is
RenameFileAny ==
    /\ Len(history) < MaxHistory
    /\ \A i \in 1..Len(history) : ~history[i].is_undone
    /\ \E path \in DOMAIN fs.files, new_name \in {"a.jpg", "c.jpg"} :
        \E m \in {rename_file(fs, history, path, new_name)} :
           /\ fs' = m.fs
           /\ history' = m.history
           /\ last' = [op |-> "rename_file", path |-> path, new_name |-> new_name,
                       ok |-> m.ok, value |-> m.value]
           /\ UNCHANGED <<watch, ro, xdev, db_locked, rules, default_rules>>

\* undo_operation on the newest entry that is not undone yet
UndoNewest ==
    \E id \in 1..Len(history) :
        /\ ~history[id].is_undone
        /\ \A j \in (id + 1)..Len(history) : history[j].is_undone
        /\ \E u \in {undo_operation(fs, history, id, <<>>)} :
              /\ fs' = u.fs
              /\ history' = u.history
              /\ last' = [op |-> "undo_operation", id |-> id, ok |-> u.ok, err |-> u.err,
                          undo_errors |-> u.undo_errors]
              /\ UNCHANGED <<watch, ro, xdev, db_locked, rules, default_rules>>

NextRoundTrip ==
    \/ MoveFileKeeping
    \/ RenameFileAny
    \/ UndoNewest

SpecRoundTrip == InitOps /\ [][NextRoundTrip]_vars

AllUndone == Len(history) > 0 /\ \A i \in 1..Len(history) : history[i].is_undone

\* C30: after successful move_file calls (Rename or Skip strategy) and
\* rename_file calls, undoing the recorded entries newest first succeeds for
\* every entry and marks it undone, and once all are undone every file is at the
\* path it had initially, with its content
C30_UndoRoundTrip ==
    /\ [](AllUndone => fs.files = OpsFs.files)
    /\ [][\A id \in 1..MaxHistory :
             (UndoStepOf(id) /\ ~history[id].is_undone)
             => (last'.ok /\ history'[id].is_undone)]_vars

\* a file was renamed, then moved into a folder where its new name was free, and
\* both entries are undone
C30_Witness ==
    /\ AllUndone
    /\ Len(history) >= 2
    /\ history[1].operation_type = "rename"
    /\ history[2].operation_type = "move"
    /\ history[2].details.original_path = history[1].details.new_path

====
